---- MODULE Spec2Model ----
(***************************************************************************)
(* Sea-level dashboard: the southern-baseline rules engine                 *)
(* (backend/shared/southern_baseline_rules.py), its integration layer      *)
(* (backend/shared/baseline_integration.py) and the historical baseline    *)
(* provider (backend/shared/historical_baseline.py).                       *)
(*                                                                         *)
(* Units.  Sea levels are metres in the source; here they are exact        *)
(* rationals over millimetres (0.320 m is 320/1), so a tolerance of 0.05 m *)
(* is 50.  Timestamps are whole hours.  Floating-point rounding is not     *)
(* modelled: arithmetic is exact.                                          *)
(***************************************************************************)
EXTENDS Integers, Sequences, FiniteSets, TLC

VARIABLES
    df,     \* the input batch: a sequence of readings [ts, station, value]
    stats,  \* SouthernBaselineRules.stats, the engine's counters
    pc,     \* "ready": engine constructed, no call yet; "done": call returned
    ret,    \* what the call returned (or raised), with its arguments
    MODEL_CACHE,   \* get_predictions: cache key -> (cached_time, cached_result)
    now,           \* datetime.now(), in seconds
    kalman_model,  \* a KalmanFilterSeaLevel: its model and fitted_model
    hmm_model,             \* RegimeSwitchingKalman: the detector, or None
    kalman_filters,        \* regime -> its fitted KalmanFilterSeaLevel
    current_regime,        \* the regime of the last detection
    regime_history,        \* the detected regimes, oldest first
    regime_probabilities,  \* the probability vectors of the detections
    pickle_file            \* what save_model wrote, or None

\* the fields of a RegimeSwitchingKalman, and the file of its saved state
regime_vars ==
    <<hmm_model, kalman_filters, current_regime, regime_history,
      regime_probabilities, pickle_file>>

vars ==
    <<df, stats, pc, ret, MODEL_CACHE, now, kalman_model, hmm_model,
      kalman_filters, current_regime, regime_history, regime_probabilities,
      pickle_file>>

\* the state of the prediction service, of the forecaster and of the
\* regime-switching model
prediction_vars == <<MODEL_CACHE, now, kalman_model, regime_vars>>

\* the state of the baseline engine and of its calls
baseline_vars == <<df, stats, pc, ret>>

(***************************************************************************)
(* Exact rationals [num, den], den > 0, in lowest terms.  None (Python's   *)
(* None for "no baseline") is the one value with den = 0.                  *)
(***************************************************************************)
RECURSIVE GCD(_, _)
GCD(a, b) == IF b = 0 THEN a ELSE GCD(b, a % b)

Abs(n) == IF n < 0 THEN 0 - n ELSE n

QReduce(n, d, g) == [num |-> n \div g, den |-> d \div g]

QNorm(n, d) == QReduce(n, d, GCD(Abs(n), d))

Q(n) == [num |-> n, den |-> 1]

None == [num |-> 0, den |-> 0]

IsNone(q) == q.den = 0

QAdd(a, b) == QNorm(a.num * b.den + b.num * a.den, a.den * b.den)

QDivInt(a, k) == QNorm(a.num, a.den * k)

\* abs(a - b)
QAbsDiff(a, b) == QNorm(Abs(a.num * b.den - b.num * a.den), a.den * b.den)

QLe(a, b) == a.num * b.den <= b.num * a.den

QGt(a, b) == a.num * b.den > b.num * a.den

RECURSIVE QSum(_)
QSum(s) == IF s = <<>> THEN Q(0) ELSE QAdd(Head(s), QSum(Tail(s)))

\* np.mean of a non-empty list
QMean(s) == QDivInt(QSum(s), Len(s))

\* the values of s in ascending order (insertion sort)
RECURSIVE QInsert(_, _)
QInsert(x, s) ==
    IF s = <<>> THEN <<x>>
    ELSE IF QLe(x, Head(s)) THEN <<x>> \o s
    ELSE <<Head(s)>> \o QInsert(x, Tail(s))

RECURSIVE QSort(_)
QSort(s) == IF s = <<>> THEN <<>> ELSE QInsert(Head(s), QSort(Tail(s)))

\* np.median of a non-empty list: the middle value, or the mean of the two
\* middle values when the length is even
QMiddle(o) ==
    IF Len(o) % 2 = 1 THEN o[(Len(o) + 1) \div 2]
    ELSE QMean(<<o[Len(o) \div 2], o[Len(o) \div 2 + 1]>>)

QMedian(s) == QMiddle(QSort(s))

(***************************************************************************)
(* Station configuration (class attributes of SouthernBaselineRules).      *)
(***************************************************************************)
SOUTHERN_STATIONS == <<"Yafo", "Ashdod", "Ashkelon">>

NORTHERN_STATIONS == <<"Haifa", "Acre">>

ALL_STATIONS == SOUTHERN_STATIONS \o NORTHERN_STATIONS \o <<"Eilat">>

Range(s) == {s[i] : i \in 1..Len(s)}

STATION_OFFSETS ==
    [s \in Range(ALL_STATIONS) |->
        CASE s = "Haifa" -> 40
          [] s = "Acre" -> 80
          [] s = "Eilat" -> 280
          [] OTHER -> 0]

TOLERANCE == [southern |-> 30, northern |-> 50, eilat |-> 60]

SOUTHERN_VALIDATION_THRESHOLD == 50

\* the provider's default lookback_hours, and min_sources' default
LOOKBACK_HOURS == 72

MIN_SOURCES == 2

\* the half-width, in hours, of the asynchronous pass's window
ASYNC_WINDOW_HOURS == 1

(***************************************************************************)
(* Frames.  A reading is a row [Tab_DateTime, Station,                     *)
(* Tab_Value_mDepthC1]; a frame is a sequence of rows.  A pivot row maps   *)
(* every station that is a column of the pivot table to its value at one   *)
(* timestamp, None (NaN) where the station has no reading there.           *)
(***************************************************************************)
NoStation == "<none>"   \* exclude_station = None

Reading(t, s, v) ==
    [Tab_DateTime |-> t, Station |-> s, Tab_Value_mDepthC1 |-> v]

Values(rows) == [i \in 1..Len(rows) |-> rows[i].Tab_Value_mDepthC1]

Timestamps(d) == {d[i].Tab_DateTime : i \in 1..Len(d)}

Columns(d) == {d[i].Station : i \in 1..Len(d)}

RowsAt(d, t, s) ==
    SelectSeq(d, LAMBDA r : r.Tab_DateTime = t /\ r.Station = s)

MinOf(S) == CHOOSE x \in S : \A y \in S : x <= y

\* the ascending sequence of a finite set of integers
RECURSIVE SortedSeq(_)
SortedSeq(S) ==
    IF S = {} THEN <<>>
    ELSE <<MinOf(S)>> \o SortedSeq(S \ {MinOf(S)})

\* df.pivot_table(index='Tab_DateTime', columns='Station', values=...):
\* the default aggregation is the mean of the readings of one cell
PivotRow(d, t) ==
    [s \in Columns(d) |->
        IF RowsAt(d, t, s) = <<>> THEN None
        ELSE QMean(Values(RowsAt(d, t, s)))]

\* station in row.index and pd.notna(row[station])
Present(row, station) == station \in DOMAIN row /\ ~IsNone(row[station])

(***************************************************************************)
(* SouthernBaselineRules                                                   *)
(***************************************************************************)
InitStats ==
    [total_records |-> 0, outliers_detected |-> 0, corrections_applied |-> 0,
     baseline_calculations |-> 0, southern_validations |-> 0,
     southern_exclusions |-> 0]

Max(a, b) == IF a >= b THEN a ELSE b

\* Step 1 of validate_southern_stations: the stations of station_data, in
\* the order of SOUTHERN_STATIONS (their values are row[station])
station_data(row, exclude_station) ==
    SelectSeq(SOUTHERN_STATIONS,
              LAMBDA s : ~(exclude_station # NoStation /\ s = exclude_station)
                         /\ Present(row, s))

\* mutant: the comparison is strict
within_threshold_strict(value, other_value) ==
    ~QLe(Q(SOUTHERN_VALIDATION_THRESHOLD), QAbsDiff(value, other_value))

\* deviation <= self.SOUTHERN_VALIDATION_THRESHOLD
within_threshold(value, other_value) ==
    QLe(QAbsDiff(value, other_value), Q(SOUTHERN_VALIDATION_THRESHOLD))

\* mutant: the station is compared with itself too
agreement_count_self(station, data, row) ==
    Len(SelectSeq(data, LAMBDA o : within_threshold(row[station], row[o])))

\* the inner loop: how many other stations of station_data agree
agreement_count(station, data, row) ==
    Len(SelectSeq(data, LAMBDA o : o # station
                                  /\ within_threshold(row[station], row[o])))

\* max(1, len(station_data) // 2)
required_agreements(n) == Max(1, n \div 2)

\* Step 2, the outer loop: the stations appended to valid_stations
validated(row, data) ==
    SelectSeq(data, LAMBDA s :
        agreement_count(s, data, row) >= required_agreements(Len(data)))

\* mutant: after the first validation of the engine nothing is excluded
validation_outcome_first(st, row, data, valid) ==
    [stats |-> [st EXCEPT !.southern_validations = @ + 1,
                          !.southern_exclusions = @ + (Len(data) - Len(valid))],
     valid_stations |-> IF st.southern_validations = 0 THEN valid ELSE data,
     valid_values |-> IF st.southern_validations = 0
                      THEN [i \in 1..Len(valid) |-> row[valid[i]]]
                      ELSE [i \in 1..Len(data) |-> row[data[i]]]]

\* what validate_southern_stations returns, and the counters after it: one
\* validation, and one exclusion for every station of data not in valid
validation_outcome(st, row, data, valid) ==
    [stats |-> [st EXCEPT !.southern_validations = @ + 1,
                          !.southern_exclusions = @ + (Len(data) - Len(valid))],
     valid_stations |-> valid,
     valid_values |-> [i \in 1..Len(valid) |-> row[valid[i]]]]

\* with 0 or 1 stations there is no validation
validate_station_data(st, row, data) ==
    IF Len(data) <= 1 THEN validation_outcome(st, row, data, data)
    ELSE validation_outcome(st, row, data, validated(row, data))

validate_southern_stations(st, row, exclude_station) ==
    validate_station_data(st, row, station_data(row, exclude_station))

\* mutant: the mean whatever the number of values
baseline_of_mean(valid_values) == QMean(valid_values)

\* Step 2 of calculate_southern_baseline, for a non-empty list
baseline_of(valid_values) ==
    IF Len(valid_values) >= 3 THEN QMedian(valid_values)
    ELSE QMean(valid_values)

\* mutant: a single validated station gives no baseline
baseline_from_two(v) ==
    IF Len(v.valid_values) < 2
    THEN [stats |-> v.stats, baseline |-> None, num_sources |-> 0,
          source_stations |-> <<>>]
    ELSE [stats |-> [v.stats EXCEPT !.baseline_calculations = @ + 1],
          baseline |-> baseline_of(v.valid_values),
          num_sources |-> Len(v.valid_values),
          source_stations |-> v.valid_stations]

\* calculate_southern_baseline after its Step 1, v being what
\* validate_southern_stations returned
baseline_from(v) ==
    IF v.valid_values = <<>>
    THEN [stats |-> v.stats, baseline |-> None, num_sources |-> 0,
          source_stations |-> <<>>]
    ELSE [stats |-> [v.stats EXCEPT !.baseline_calculations = @ + 1],
          baseline |-> baseline_of(v.valid_values),
          num_sources |-> Len(v.valid_values),
          source_stations |-> v.valid_stations]

calculate_southern_baseline(st, row, exclude_station) ==
    baseline_from(validate_southern_stations(st, row, exclude_station))

get_expected_value(station, baseline) ==
    IF station \notin DOMAIN STATION_OFFSETS THEN baseline
    ELSE QAdd(baseline, Q(STATION_OFFSETS[station]))

get_tolerance(station) ==
    IF station \in Range(SOUTHERN_STATIONS) THEN Q(TOLERANCE.southern)
    ELSE IF station = "Eilat" THEN Q(TOLERANCE.eilat)
    ELSE Q(TOLERANCE.northern)

\* a flag and a deviation, counted in outliers_detected when flagged
flagged(st, is_outlier, deviation) ==
    [stats |-> IF is_outlier THEN [st EXCEPT !.outliers_detected = @ + 1]
               ELSE st,
     is_outlier |-> is_outlier,
     deviation |-> deviation]

\* is_outlier = deviation > tolerance
deviation_outlier(st, station, deviation) ==
    flagged(st, QGt(deviation, get_tolerance(station)), deviation)

detect_outlier(st, station, actual_value, expected_value) ==
    IF IsNone(actual_value) \/ IsNone(expected_value)
    THEN [stats |-> st, is_outlier |-> FALSE, deviation |-> Q(0)]
    ELSE deviation_outlier(st, station,
                           QAbsDiff(actual_value, expected_value))

\* results[station], with the counters after it; c is what
\* calculate_southern_baseline returned, o the flag and the deviation
station_result(station, actual_value, expected_value, c, excluded, o) ==
    [stats |-> o.stats,
     result |->
        [station |-> station, actual |-> actual_value,
         expected |-> expected_value, baseline |-> c.baseline,
         baseline_sources |-> c.num_sources,
         baseline_stations |-> c.source_stations,
         deviation |-> o.deviation,
         is_outlier |-> o.is_outlier,
         tolerance |-> get_tolerance(station),
         excluded_from_baseline |-> station \in excluded]]

\* mutant: an excluded southern station is left unflagged
flag_station_unflagged(st, station, actual_value, expected_value, excluded) ==
    IF station \in excluded
    THEN [stats |-> st, is_outlier |-> FALSE,
          deviation |-> QAbsDiff(actual_value, expected_value)]
    ELSE detect_outlier(st, station, actual_value, expected_value)

\* the if/else of process_row_with_validation's loop: an excluded southern
\* station is an outlier, any other station goes through detect_outlier
flag_station(st, station, actual_value, expected_value, excluded) ==
    IF station \in excluded
    THEN flagged(st, TRUE, QAbsDiff(actual_value, expected_value))
    ELSE detect_outlier(st, station, actual_value, expected_value)

\* the loop body once expected_value is known
process_expected(st, station, actual_value, expected_value, c, excluded) ==
    station_result(station, actual_value, expected_value, c, excluded,
        flag_station(st, station, actual_value, expected_value, excluded))

\* the body of process_row_with_validation's loop for one present station
process_station(st, station, actual_value, c, excluded) ==
    process_expected(st, station, actual_value,
                     get_expected_value(station, c.baseline), c, excluded)

\* one more entry in front of the entries of the later stations
PrependResult(x, rest) ==
    [stats |-> rest.stats, results |-> <<x>> \o rest.results]

\* the loop over ALL_STATIONS, from its i-th station on
RECURSIVE process_stations(_, _, _, _, _)
RECURSIVE process_later_stations(_, _, _, _, _)
process_stations(st, row, c, excluded, i) ==
    IF i > Len(ALL_STATIONS) THEN [stats |-> st, results |-> <<>>]
    ELSE IF ~Present(row, ALL_STATIONS[i])
    THEN process_stations(st, row, c, excluded, i + 1)
    ELSE process_later_stations(row, c, excluded, i,
             process_station(st, ALL_STATIONS[i], row[ALL_STATIONS[i]],
                             c, excluded))

process_later_stations(row, c, excluded, i, one) ==
    PrependResult(one.result,
                  process_stations(one.stats, row, c, excluded, i + 1))

\* the southern stations that have a reading and were not validated
excluded_southern_stations(row, valid_stations) ==
    {s \in Range(SOUTHERN_STATIONS) :
        Present(row, s) /\ s \notin Range(valid_stations)}

\* process_row_with_validation once the baseline is calculated: no result
\* without a baseline
process_with_baseline(row, excluded, c) ==
    IF IsNone(c.baseline) THEN [stats |-> c.stats, results |-> <<>>]
    ELSE process_stations(c.stats, row, c, excluded, 1)

\* process_row_with_validation after its own validation v: the baseline
\* is calculated by a second validation of the same row
process_validated(row, v) ==
    process_with_baseline(row,
        excluded_southern_stations(row, v.valid_stations),
        calculate_southern_baseline(v.stats, row, NoStation))

\* results is the dict in insertion order, one entry per station
process_row_with_validation(st, row) ==
    process_validated(row, validate_southern_stations(st, row, NoStation))

\* one row of results_list
ResultRow(timestamp, r) ==
    [Tab_DateTime |-> timestamp,
     Station |-> r.station,
     Tab_Value_mDepthC1 |-> r.actual,
     Expected_Value |-> r.expected,
     Baseline |-> r.baseline,
     Baseline_Sources |-> r.baseline_sources,
     Baseline_Stations |-> r.baseline_stations,
     Deviation |-> r.deviation,
     Is_Outlier |-> r.is_outlier,
     Tolerance |-> r.tolerance,
     Excluded_From_Baseline |-> r.excluded_from_baseline]

ResultRows(timestamp, results) ==
    [k \in 1..Len(results) |-> ResultRow(timestamp, results[k])]

PrependRows(rows, rest) ==
    [stats |-> rest.stats, results_list |-> rows \o rest.results_list]

\* the loop over pivot_df.iterrows(), from the i-th timestamp on
RECURSIVE process_timestamps(_, _, _, _)
RECURSIVE process_later_timestamps(_, _, _, _)
process_timestamps(st, d, index, i) ==
    IF i > Len(index) THEN [stats |-> st, results_list |-> <<>>]
    ELSE process_later_timestamps(d, index, i,
             process_row_with_validation(st, PivotRow(d, index[i])))

process_later_timestamps(d, index, i, p) ==
    PrependRows(ResultRows(index[i], p.results),
                process_timestamps(p.stats, d, index, i + 1))

\* With an empty results_list, pd.DataFrame([]) has no column and
\* results_df['Is_Outlier'] raises KeyError: no frame is returned.
results_frame(p) ==
    [stats |-> p.stats,
     status |-> IF p.results_list = <<>> THEN "KeyError" ELSE "ok",
     records |-> p.results_list]

process_dataframe(st, d) ==
    results_frame(process_timestamps(st, d, SortedSeq(Timestamps(d)), 1))

\* nearby_data: the Yafo and Ashdod rows of d within one hour of the
\* timestamp, both ends included
nearby_data(d, timestamp) ==
    SelectSeq(d, LAMBDA r :
        /\ r.Tab_DateTime >= timestamp - ASYNC_WINDOW_HOURS
        /\ r.Tab_DateTime <= timestamp + ASYNC_WINDOW_HOURS
        /\ r.Station \in {"Yafo", "Ashdod"})

StationRows(rows, s) == SelectSeq(rows, LAMBDA r : r.Station = s)

NearbyStations(nearby) ==
    SelectSeq(<<"Yafo", "Ashdod">>, LAMBDA s : StationRows(nearby, s) # <<>>)

\* baseline_values: the mean of each of Yafo and Ashdod over nearby_data
baseline_values(nearby) ==
    [i \in 1..Len(NearbyStations(nearby)) |->
        QMean(Values(StationRows(nearby, NearbyStations(nearby)[i])))]

\* the record appended for one Ashkelon row
async_fields(ashkelon_row, baseline, deviation, is_outlier) ==
    [Tab_DateTime |-> ashkelon_row.Tab_DateTime,
     Station |-> "Ashkelon",
     Tab_Value_mDepthC1 |-> ashkelon_row.Tab_Value_mDepthC1,
     Expected_Value |-> baseline,
     Baseline |-> baseline,
     Deviation |-> deviation,
     Is_Outlier |-> is_outlier,
     Excluded_From_Baseline |-> is_outlier]

\* is_outlier = deviation > self.SOUTHERN_VALIDATION_THRESHOLD
async_deviation(ashkelon_row, baseline, deviation) ==
    async_fields(ashkelon_row, baseline, deviation,
                 QGt(deviation, Q(SOUTHERN_VALIDATION_THRESHOLD)))

\* expected_value = baseline: Ashkelon should match the southern baseline
async_record(ashkelon_row, baseline) ==
    async_deviation(ashkelon_row, baseline,
                    QAbsDiff(ashkelon_row.Tab_Value_mDepthC1, baseline))

PrependRecord(rec, rest) ==
    [stats |-> rest.stats, records |-> <<rec>> \o rest.records]

\* the loop over ashkelon_data.iterrows(), from the i-th row on
RECURSIVE async_rows(_, _, _, _)
RECURSIVE async_nearby(_, _, _, _, _)
RECURSIVE async_values(_, _, _, _, _)
RECURSIVE async_append(_, _, _, _, _)
async_rows(st, d, ashkelon_data, i) ==
    IF i > Len(ashkelon_data) THEN [stats |-> st, records |-> <<>>]
    ELSE async_nearby(st, d, ashkelon_data, i,
                      nearby_data(d, ashkelon_data[i].Tab_DateTime))

\* if len(nearby_data) >= 2
async_nearby(st, d, ashkelon_data, i, nearby) ==
    IF Len(nearby) >= 2
    THEN async_values(st, d, ashkelon_data, i, baseline_values(nearby))
    ELSE async_rows(st, d, ashkelon_data, i + 1)

\* if len(baseline_values) >= 2: baseline = np.mean(baseline_values)
async_values(st, d, ashkelon_data, i, values) ==
    IF Len(values) >= 2
    THEN async_append(st, d, ashkelon_data, i,
                      async_record(ashkelon_data[i], QMean(values)))
    ELSE async_rows(st, d, ashkelon_data, i + 1)

async_append(st, d, ashkelon_data, i, rec) ==
    PrependRecord(rec,
        async_rows(IF rec.Is_Outlier
                   THEN [st EXCEPT !.outliers_detected = @ + 1] ELSE st,
                   d, ashkelon_data, i + 1))

detect_asynchronous_outliers(st, d) ==
    async_rows(st, d, StationRows(d, "Ashkelon"), 1)

(***************************************************************************)
(* BaselineIntegratedProcessor                                             *)
(***************************************************************************)
\* pd.concat gives a row of async_outliers NaN in the columns it lacks
ConcatRow(a) ==
    [Tab_DateTime |-> a.Tab_DateTime,
     Station |-> a.Station,
     Tab_Value_mDepthC1 |-> a.Tab_Value_mDepthC1,
     Expected_Value |-> a.Expected_Value,
     Baseline |-> a.Baseline,
     Baseline_Sources |-> None,
     Baseline_Stations |-> None,
     Deviation |-> a.Deviation,
     Is_Outlier |-> a.Is_Outlier,
     Tolerance |-> None,
     Excluded_From_Baseline |-> a.Excluded_From_Baseline]

ConcatRows(records) == [i \in 1..Len(records) |-> ConcatRow(records[i])]

\* df['anomaly'] = df['Is_Outlier'].apply(lambda x: -1 if x else 0)
WithAnomaly(r) ==
    [c \in DOMAIN r \cup {"anomaly"} |->
        IF c = "anomaly" THEN (IF r.Is_Outlier THEN 0 - 1 ELSE 0) ELSE r[c]]

WithAnomalies(records) == [i \in 1..Len(records) |-> WithAnomaly(records[i])]

\* the frame returned: the rows of process_dataframe, then the rows of
\* the asynchronous pass (a), with the 'anomaly' column
merged_frame(records, a) ==
    [stats |-> a.stats,
     status |-> "ok",
     records |-> WithAnomalies(records \o ConcatRows(a.records))]

\* detect_anomalies_with_rules after process_dataframe, which returned or
\* raised p: the KeyError is not caught, and the asynchronous pass reads
\* the processed frame
anomalies_of_processed(p) ==
    IF p.status # "ok" THEN p
    ELSE merged_frame(p.records,
                      detect_asynchronous_outliers(p.stats, p.records))

detect_anomalies_with_rules(st, d) ==
    IF d = <<>> THEN [stats |-> st, status |-> "ok", records |-> <<>>]
    ELSE anomalies_of_processed(process_dataframe(st, d))

\* the rows of one timestamp, as groupby('Tab_DateTime') gives them
TimestampGroup(records, t) == SelectSeq(records, LAMBDA r : r.Tab_DateTime = t)

\* group['Southern_Baseline'].iloc[0] if the group has that column
group_baseline_value(group) ==
    IF "Southern_Baseline" \in DOMAIN group[1]
    THEN group[1].Southern_Baseline
    ELSE None

\* a group without baseline value is skipped; for a flagged row of any
\* other group the engine is asked for get_correction_suggestion, a method
\* SouthernBaselineRules does not have
group_suggestions(group) ==
    IF IsNone(group_baseline_value(group)) THEN "skipped"
    ELSE IF \E i \in 1..Len(group) : group[i].Is_Outlier
    THEN "AttributeError"
    ELSE "none"

get_correction_suggestions(records) ==
    IF records = <<>> THEN [status |-> "ok", suggestions |-> <<>>]
    ELSE IF \E t \in Timestamps(records) :
               group_suggestions(TimestampGroup(records, t)) = "AttributeError"
    THEN [status |-> "AttributeError", suggestions |-> <<>>]
    ELSE [status |-> "ok", suggestions |-> <<>>]

corrections_response(st, c) ==
    [stats |-> st,
     status |-> c.status,
     total_suggestions |-> Len(c.suggestions),
     suggestions |-> c.suggestions]

\* get_corrections_api after detect_anomalies_with_rules, which returned
\* or raised p
corrections_of_processed(p) ==
    IF p.status # "ok"
    THEN [stats |-> p.stats, status |-> p.status,
          total_suggestions |-> 0, suggestions |-> <<>>]
    ELSE corrections_response(p.stats, get_correction_suggestions(p.records))

get_corrections_api(st, d) ==
    corrections_of_processed(detect_anomalies_with_rules(st, d))

\* exclusion_rate is an exact rational, in percent
get_validation_stats(st) ==
    [total_validations |-> st.southern_validations,
     total_exclusions |-> st.southern_exclusions,
     exclusion_rate |->
        IF st.southern_validations > 0
        THEN QNorm(100 * st.southern_exclusions, st.southern_validations)
        ELSE Q(0),
     outliers_detected |-> st.outliers_detected,
     baseline_calculations |-> st.baseline_calculations]

\* round(k / n * 100, 2), in hundredths of a percent
outlier_percentage(k, n) ==
    IF n > 0 THEN (2 * 10000 * k + n) \div (2 * n) ELSE 0

outliers_response(st, status, records, outliers) ==
    [stats |-> st,
     status |-> status,
     total_records |-> Len(records),
     outliers_detected |-> Len(outliers),
     outlier_percentage |-> outlier_percentage(Len(outliers), Len(records)),
     validation |-> get_validation_stats(st),
     outliers |-> outliers]

\* get_outliers_api after detect_anomalies_with_rules, which returned or
\* raised p
outliers_of_processed(p) ==
    IF p.status # "ok"
    THEN outliers_response(p.stats, p.status, <<>>, <<>>)
    ELSE outliers_response(p.stats, "ok", p.records,
                           SelectSeq(p.records, LAMBDA r : r.Is_Outlier))

\* the frames given are far below the limits of 3000 records and 500
\* outliers; an empty frame is answered with zeros, without an engine
get_outliers_api(st, d) ==
    IF d = <<>> THEN outliers_response(InitStats, "ok", <<>>, <<>>)
    ELSE outliers_of_processed(detect_anomalies_with_rules(st, d))

(***************************************************************************)
(* HistoricalBaselineProvider, with lookback_hours = LOOKBACK_HOURS.       *)
(* The weight of a station is exp(-age), age in hours.  The weighted       *)
(* average is kept as its terms [station, value, age], standing for        *)
(*   sum(value * exp(-age)) / sum(exp(-age)).                              *)
(***************************************************************************)
\* groupby('Station') orders its groups by station name
GROUP_ORDER == <<"Ashdod", "Ashkelon", "Yafo">>

\* mutant: the window includes the timestamp itself
in_lookback_closed(t, timestamp) ==
    t >= timestamp - LOOKBACK_HOURS /\ t <= timestamp

\* start_time <= Tab_DateTime < timestamp
in_lookback(t, timestamp) ==
    t >= timestamp - LOOKBACK_HOURS /\ t < timestamp

historical_data(d, timestamp) ==
    SelectSeq(d, LAMBDA r : in_lookback(r.Tab_DateTime, timestamp)
                            /\ r.Station \in {"Yafo", "Ashdod", "Ashkelon"})

MaxOf(S) == CHOOSE x \in S : \A y \in S : x >= y

\* one station's term: groupby(...).last() is the value of the station's
\* last row in frame order; the weight is taken at the station's greatest
\* timestamp
historical_term(h, timestamp, s) ==
    LET rows == SelectSeq(h, LAMBDA r : r.Station = s)
    IN  [station |-> s,
         value |-> rows[Len(rows)].Tab_Value_mDepthC1,
         age |-> timestamp - MaxOf(Timestamps(rows))]

get_historical_baseline(d, timestamp, min_sources) ==
    LET h == historical_data(d, timestamp)
        groups == SelectSeq(GROUP_ORDER, LAMBDA s : s \in Columns(h))
        absent == [baseline |-> None, num_sources |-> 0]
    IN  IF d = <<>> THEN absent
        ELSE IF Len(h) < min_sources THEN absent
        ELSE IF Len(groups) < min_sources THEN absent
        ELSE [baseline |->
                [terms |-> [i \in 1..Len(groups) |->
                                historical_term(h, timestamp, groups[i])]],
              num_sources |-> Len(groups)]

\* mutant: an under-supported current baseline is preferred to the history
enhance_current_first(d, current_baseline, current_sources, timestamp, min_sources) ==
    IF ~IsNone(current_baseline)
    THEN [baseline |-> current_baseline, num_sources |-> current_sources]
    ELSE get_historical_baseline(d, timestamp, min_sources)

enhance_baseline_calculation(d, current_baseline, current_sources, timestamp, min_sources) ==
    LET hist == get_historical_baseline(d, timestamp, min_sources)
    IN  IF ~IsNone(current_baseline) /\ current_sources >= min_sources
        THEN [baseline |-> current_baseline, num_sources |-> current_sources]
        ELSE IF hist.baseline # None THEN hist
        ELSE IF ~IsNone(current_baseline)
        THEN [baseline |-> current_baseline, num_sources |-> current_sources]
        ELSE [baseline |-> None, num_sources |-> 0]

(***************************************************************************)
(* Inputs.  Three families of frames:                                      *)
(*  - one timestamp, any of the six stations, reference values that agree, *)
(*    disagree and sit exactly 50 mm apart;                                *)
(*  - up to MaxReadings readings over three timestamps (1 hour and more    *)
(*    than 1 hour apart), in pivot order;                                  *)
(*  - for the provider: up to MaxReadings readings over timestamps on both *)
(*    edges of the 72-hour lookback, oldest first or newest first.         *)
(***************************************************************************)
MaxReadings == 3

RefValues == {318, 320, 330, 370, 380}

OneRowChoices ==
    [Yafo : {None} \cup {Q(v) : v \in RefValues},
     Ashdod : {None} \cup {Q(v) : v \in RefValues},
     Ashkelon : {None} \cup {Q(v) : v \in RefValues},
     Haifa : {None, Q(409), Q(663)},
     Acre : {None, Q(395)},
     Eilat : {None, Q(660)}]

OneRowFrame(c) ==
    LET present == SelectSeq(ALL_STATIONS, LAMBDA s : ~IsNone(c[s]))
    IN  [i \in 1..Len(present) |-> Reading(0, present[i], c[present[i]])]

OneRowFrames == {OneRowFrame(c) : c \in OneRowChoices}

\* the frame of the readings g gives its cells <<timestamp, station>>, in
\* the order of cells
CellFrame(cells, g) ==
    LET present == SelectSeq(cells, LAMBDA c : c \in DOMAIN g)
    IN  [i \in 1..Len(present) |->
            Reading(present[i][1], present[i][2], g[present[i]])]

Reverse(s) == [i \in 1..Len(s) |-> s[Len(s) + 1 - i]]

\* the sets of at most MaxReadings cells
CellSets(cells) ==
    {S \in SUBSET Range(cells) : Cardinality(S) <= MaxReadings}

BatchCells ==
    <<<<0, "Yafo">>, <<0, "Ashdod">>, <<0, "Ashkelon">>, <<0, "Haifa">>,
      <<1, "Yafo">>, <<1, "Ashdod">>, <<1, "Ashkelon">>, <<1, "Haifa">>,
      <<3, "Yafo">>, <<3, "Ashdod">>, <<3, "Ashkelon">>, <<3, "Haifa">>>>

BatchOptions(c) ==
    IF c[2] = "Haifa" THEN {Q(663)} ELSE {Q(320), Q(380)}

BatchFrames ==
    UNION {{CellFrame(BatchCells, g) :
                g \in {h \in [S -> {Q(320), Q(380), Q(663)}] :
                          \A c \in S : h[c] \in BatchOptions(c)}} :
           S \in CellSets(BatchCells)}

HistoryCells ==
    <<<<0, "Yafo">>, <<0, "Ashdod">>, <<0, "Ashkelon">>, <<0, "Haifa">>,
      <<1, "Yafo">>, <<1, "Ashdod">>, <<1, "Ashkelon">>, <<1, "Haifa">>,
      <<72, "Yafo">>, <<72, "Ashdod">>, <<72, "Ashkelon">>, <<72, "Haifa">>,
      <<73, "Yafo">>, <<73, "Ashdod">>, <<73, "Ashkelon">>, <<73, "Haifa">>>>

\* every cell has its own value, so a value names the reading it came from
HistoryValue(c) ==
    Q((CASE c[2] = "Yafo" -> 320
         [] c[2] = "Ashdod" -> 310
         [] c[2] = "Ashkelon" -> 330
         [] OTHER -> 660) + (c[1] % 10))

HistoryFrames ==
    UNION {{CellFrame(HistoryCells, [c \in S |-> HistoryValue(c)]),
            Reverse(CellFrame(HistoryCells, [c \in S |-> HistoryValue(c)]))} :
           S \in CellSets(HistoryCells)}

(***************************************************************************)
(* The engine: one call on a freshly constructed SouthernBaselineRules     *)
(* (or BaselineIntegratedProcessor, which constructs one), as              *)
(* get_outliers_api and get_corrections_api do for every request.          *)
(***************************************************************************)
\* Python's None and the empty list, for the results of the predictors
PyNone == [kind |-> "None"]

EmptyList == [kind |-> "list", points |-> 0]

\* KalmanFilterSeaLevel(config): nothing built, nothing fitted
NewKalman == [model |-> PyNone, fitted_model |-> PyNone]

\* the prediction module as imported, and a forecaster as constructed
\* RegimeSwitchingKalman(): no detector, no filters, nothing detected
NewRegimeSwitching ==
    /\ hmm_model = PyNone
    /\ kalman_filters = <<>>
    /\ current_regime = "CALM"
    /\ regime_history = <<>>
    /\ regime_probabilities = <<>>

PredictionsIdle ==
    /\ MODEL_CACHE = <<>>
    /\ now = 0
    /\ kalman_model = NewKalman
    /\ NewRegimeSwitching
    /\ pickle_file = PyNone

NoCall == [op |-> "none"]

Init ==
    /\ df \in OneRowFrames \cup BatchFrames
    /\ stats = InitStats
    /\ pc = "ready"
    /\ ret = NoCall
    /\ PredictionsIdle

\* SouthernBaselineRules(): a new engine, its counters at zero
NewEngine ==
    /\ pc = "done"
    /\ pc' = "ready"
    /\ stats' = InitStats
    /\ ret' = NoCall
    /\ UNCHANGED df
    /\ UNCHANGED prediction_vars

ExcludeChoices == {NoStation} \cup Range(SOUTHERN_STATIONS)

\* the call returns: the counters are the engine's, the result is kept
Return(st, result) ==
    /\ stats' = st
    /\ ret' = result
    /\ pc' = "done"
    /\ UNCHANGED df
    /\ UNCHANGED prediction_vars

Validated(t, exclude_station, r) ==
    Return(r.stats, [op |-> "validate_southern_stations",
                     timestamp |-> t,
                     exclude_station |-> exclude_station,
                     valid_stations |-> r.valid_stations,
                     valid_values |-> r.valid_values])

ValidateSouthernStations ==
    /\ pc = "ready"
    /\ \E t \in Timestamps(df), exclude_station \in ExcludeChoices :
          Validated(t, exclude_station,
              validate_southern_stations(stats, PivotRow(df, t),
                                         exclude_station))

Calculated(t, exclude_station, r) ==
    Return(r.stats, [op |-> "calculate_southern_baseline",
                     timestamp |-> t,
                     exclude_station |-> exclude_station,
                     baseline |-> r.baseline,
                     num_sources |-> r.num_sources,
                     source_stations |-> r.source_stations])

CalculateSouthernBaseline ==
    /\ pc = "ready"
    /\ \E t \in Timestamps(df), exclude_station \in ExcludeChoices :
          Calculated(t, exclude_station,
              calculate_southern_baseline(stats, PivotRow(df, t),
                                          exclude_station))

RowProcessed(t, r) ==
    Return(r.stats, [op |-> "process_row_with_validation",
                     timestamp |-> t,
                     results |-> r.results])

ProcessRowWithValidation ==
    /\ pc = "ready"
    /\ \E t \in Timestamps(df) :
          RowProcessed(t, process_row_with_validation(stats, PivotRow(df, t)))

FrameReturned(op, r) ==
    Return(r.stats, [op |-> op, status |-> r.status, records |-> r.records])

\* the frames given are not empty
ProcessDataframe ==
    /\ pc = "ready"
    /\ df # <<>>
    /\ FrameReturned("process_dataframe", process_dataframe(stats, df))

AsyncReturned(r) ==
    Return(r.stats, [op |-> "detect_asynchronous_outliers",
                     status |-> "ok",
                     records |-> r.records])

DetectAsynchronousOutliers ==
    /\ pc = "ready"
    /\ AsyncReturned(detect_asynchronous_outliers(stats, df))

DetectAnomaliesWithRules ==
    /\ pc = "ready"
    /\ FrameReturned("detect_anomalies_with_rules",
                     detect_anomalies_with_rules(stats, df))

CorrectionsReturned(r) ==
    Return(r.stats, [op |-> "get_corrections_api",
                     status |-> r.status,
                     total_suggestions |-> r.total_suggestions,
                     suggestions |-> r.suggestions])

GetCorrectionsApi ==
    /\ pc = "ready"
    /\ CorrectionsReturned(get_corrections_api(stats, df))

OutliersReturned(r) ==
    Return(r.stats, [op |-> "get_outliers_api",
                     status |-> r.status,
                     total_records |-> r.total_records,
                     outliers_detected |-> r.outliers_detected,
                     outlier_percentage |-> r.outlier_percentage,
                     validation |-> r.validation,
                     outliers |-> r.outliers])

GetOutliersApi ==
    /\ pc = "ready"
    /\ OutliersReturned(get_outliers_api(stats, df))

Next ==
    \/ NewEngine
    \/ ValidateSouthernStations
    \/ CalculateSouthernBaseline
    \/ ProcessRowWithValidation
    \/ ProcessDataframe
    \/ DetectAsynchronousOutliers
    \/ DetectAnomaliesWithRules
    \/ GetCorrectionsApi
    \/ GetOutliersApi

Spec == Init /\ [][Next]_vars

(***************************************************************************)
(* The provider: one call on a HistoricalBaselineProvider().  It keeps no  *)
(* state but lookback_hours; stats is not touched.                         *)
(***************************************************************************)
HistTimestamps == {72, 73}

MinSourcesChoices == {1, 2, 3}

CurrentChoices ==
    {[baseline |-> None, num_sources |-> 0],
     [baseline |-> None, num_sources |-> 1],
     [baseline |-> Q(320), num_sources |-> 1],
     [baseline |-> Q(320), num_sources |-> 2]}

InitHist ==
    /\ df \in HistoryFrames
    /\ stats = InitStats
    /\ pc = "ready"
    /\ ret = NoCall
    /\ PredictionsIdle

NewProvider ==
    /\ pc = "done"
    /\ pc' = "ready"
    /\ ret' = NoCall
    /\ UNCHANGED <<df, stats>>
    /\ UNCHANGED prediction_vars

GetHistoricalBaseline ==
    /\ pc = "ready"
    /\ \E timestamp \in HistTimestamps, min_sources \in MinSourcesChoices :
          LET r == get_historical_baseline(df, timestamp, min_sources)
          IN  ret' = [op |-> "get_historical_baseline",
                      timestamp |-> timestamp,
                      min_sources |-> min_sources,
                      baseline |-> r.baseline,
                      num_sources |-> r.num_sources]
    /\ pc' = "done"
    /\ UNCHANGED <<df, stats>>
    /\ UNCHANGED prediction_vars

EnhanceBaselineCalculation ==
    /\ pc = "ready"
    /\ \E timestamp \in HistTimestamps, min_sources \in MinSourcesChoices,
          cur \in CurrentChoices :
          LET r == enhance_baseline_calculation(df, cur.baseline,
                       cur.num_sources, timestamp, min_sources)
          IN  ret' = [op |-> "enhance_baseline_calculation",
                      timestamp |-> timestamp,
                      min_sources |-> min_sources,
                      current_baseline |-> cur.baseline,
                      current_sources |-> cur.num_sources,
                      baseline |-> r.baseline,
                      num_sources |-> r.num_sources]
    /\ pc' = "done"
    /\ UNCHANGED <<df, stats>>
    /\ UNCHANGED prediction_vars

NextHist ==
    \/ NewProvider
    \/ GetHistoricalBaseline
    \/ EnhanceBaselineCalculation

SpecHist == InitHist /\ [][NextHist]_vars

(***************************************************************************)
(* One engine shared by two threads, each making one call for a timestamp  *)
(* of its own.  What a call shares with the other is self.stats: every     *)
(* self.stats[k] += 1 reads the counter and writes it back in separate     *)
(* steps, and the other thread may run between the two.  Here pc maps a    *)
(* thread to its position - the call, the counters still to increment,     *)
(* the value last read - and ret maps a thread to what its call returned.  *)
(***************************************************************************)
Threads == {1, 2}

ConcOps ==
    {"validate_southern_stations", "calculate_southern_baseline",
     "process_row_with_validation"}

\* the frames with readings at the hours 0 and 1, and no other
ConcFrames == {d \in BatchFrames : Timestamps(d) = {0, 1}}

Repeat(counter, n) == [i \in 1..n |-> counter]

\* the increments of validate_southern_stations, in the order of the code
validate_increments(row) ==
    <<"southern_validations">>
        \o Repeat("southern_exclusions",
                  validate_southern_stations(InitStats, row, NoStation)
                      .stats.southern_exclusions)

calculate_increments(row) ==
    validate_increments(row)
        \o Repeat("baseline_calculations",
                  calculate_southern_baseline(InitStats, row, NoStation)
                      .stats.baseline_calculations)

process_increments(row) ==
    validate_increments(row)
        \o calculate_increments(row)
        \o Repeat("outliers_detected",
                  process_row_with_validation(InitStats, row)
                      .stats.outliers_detected)

increments(op, row) ==
    CASE op = "validate_southern_stations" -> validate_increments(row)
      [] op = "calculate_southern_baseline" -> calculate_increments(row)
      [] OTHER -> process_increments(row)

\* what the call returns: it reads the row alone
validate_outcome(v) ==
    [valid_stations |-> v.valid_stations, valid_values |-> v.valid_values]

calculate_outcome(c) ==
    [baseline |-> c.baseline, num_sources |-> c.num_sources,
     source_stations |-> c.source_stations]

outcome(op, row) ==
    CASE op = "validate_southern_stations" ->
            validate_outcome(validate_southern_stations(InitStats, row,
                                                        NoStation))
      [] op = "calculate_southern_baseline" ->
            calculate_outcome(calculate_southern_baseline(InitStats, row,
                                                          NoStation))
      [] OTHER ->
            [results |-> process_row_with_validation(InitStats, row).results]

ThreadTimestamp(d, t) ==
    IF t = 1 THEN MinOf(Timestamps(d)) ELSE MaxOf(Timestamps(d))

ThreadStart(d, op, t) ==
    [op |-> op,
     timestamp |-> ThreadTimestamp(d, t),
     todo |-> increments(op, PivotRow(d, ThreadTimestamp(d, t))),
     at |-> "ready",
     value |-> 0]

InitConc ==
    /\ df \in ConcFrames
    /\ stats = InitStats
    /\ \E ops \in [Threads -> ConcOps] :
          pc = [t \in Threads |-> ThreadStart(df, ops[t], t)]
    /\ ret = [t \in Threads |-> NoCall]
    /\ PredictionsIdle

\* the read of self.stats[k] += 1
LoadCounter(t) ==
    /\ pc[t].at = "ready"
    /\ pc[t].todo # <<>>
    /\ pc' = [pc EXCEPT ![t].at = "loaded",
                        ![t].value = stats[Head(pc[t].todo)]]
    /\ UNCHANGED <<df, stats, ret>>
    /\ UNCHANGED prediction_vars

\* the write of self.stats[k] += 1
StoreCounter(t) ==
    /\ pc[t].at = "loaded"
    /\ stats' = [stats EXCEPT ![Head(pc[t].todo)] = pc[t].value + 1]
    /\ pc' = [pc EXCEPT ![t].at = "ready", ![t].todo = Tail(pc[t].todo)]
    /\ UNCHANGED <<df, ret>>
    /\ UNCHANGED prediction_vars

ReturnCall(t) ==
    /\ pc[t].at = "ready"
    /\ pc[t].todo = <<>>
    /\ ret' = [ret EXCEPT
                 ![t] = outcome(pc[t].op, PivotRow(df, pc[t].timestamp))]
    /\ pc' = [pc EXCEPT ![t].at = "done"]
    /\ UNCHANGED <<df, stats>>
    /\ UNCHANGED prediction_vars

NextConc ==
    \E t \in Threads :
        \/ LoadCounter(t)
        \/ StoreCounter(t)
        \/ ReturnCall(t)

SpecConc == InitConc /\ [][NextConc]_vars

(***************************************************************************)
(* The State-Space Forecaster (backend/shared/kalman_filter.py) and the    *)
(* prediction service (backend/lambdas/get_predictions/main.py).           *)
(* A history is the number of its rows (hourly points); a forecast is the  *)
(* number of its points, with the call that computed it.  What statsmodels *)
(* does is an input of every call: "ok", "fit_error" (model.fit raises) or *)
(* "forecast_error" (get_forecast and the fallback forecast both raise).   *)
(***************************************************************************)
CACHE_EXPIRY == 3600

KALMAN_MIN_ROWS == 48

ARIMA_MIN_ROWS == 24

SECONDS_PER_DAY == 86400

LibraryOutcomes == {"ok", "fit_error", "forecast_error"}

\* build_model: self.model = UnobservedComponents(...)
build_model(k, rows) ==
    [k EXCEPT !.model = [kind |-> "UnobservedComponents", nobs |-> rows]]

fit_results(k, rows) ==
    [k EXCEPT !.fitted_model = [kind |-> "results", nobs |-> rows]]

\* KalmanFilterSeaLevel.fit: whatever the number of rows, the model is
\* built and fitted; an exception of model.fit is logged and raised again,
\* after self.model was replaced
\* mutant: the results of a fit that raised are kept
fit_keeps_results(k, rows, library) ==
    [kalman_model |-> fit_results(build_model(k, rows), rows),
     status |-> IF library = "fit_error" THEN "raise" ELSE "ok",
     error |-> IF library = "fit_error" THEN "fit_error" ELSE "none",
     attempts |-> 1]

\* attempts: the calls of self.model.fit the one call of fit makes
fit(k, rows, library) ==
    IF library = "fit_error"
    THEN [kalman_model |-> build_model(k, rows), status |-> "raise",
          error |-> "fit_error", attempts |-> 1]
    ELSE [kalman_model |-> fit_results(build_model(k, rows), rows),
          status |-> "ok", error |-> "none", attempts |-> 1]

\* KalmanFilterSeaLevel.forecast: a frame of steps rows
forecast(k, steps, library) ==
    IF k.fitted_model = PyNone
    THEN [status |-> "raise", error |-> "must be fitted", rows |-> 0]
    ELSE IF library = "forecast_error"
    THEN [status |-> "raise", error |-> "forecast_error", rows |-> 0]
    ELSE [status |-> "ok", error |-> "none", rows |-> steps]

\* KalmanFilterSeaLevel.update: the observation echoed
update(k) ==
    IF k.fitted_model = PyNone
    THEN [status |-> "raise", error |-> "must be fitted"]
    ELSE [status |-> "ok", error |-> "none"]

\* KalmanFilterSeaLevel.decompose: an exception while the components are
\* read is logged, and the residuals alone are returned
decompose(k, library) ==
    IF k.fitted_model = PyNone
    THEN [status |-> "raise", error |-> "must be fitted",
          components |-> "none"]
    ELSE [status |-> "ok", error |-> "none",
          components |-> IF library = "ok" THEN "all" ELSE "residual"]

\* KalmanFilterSeaLevel.get_nowcast: IndexError, ValueError and TypeError
\* give the basic nowcast, any other exception leaves the call
get_nowcast(k, library) ==
    IF k.fitted_model = PyNone
    THEN [status |-> "raise", error |-> "must be fitted", nowcast |-> "none"]
    ELSE IF library = "other_error"
    THEN [status |-> "raise", error |-> "other_error", nowcast |-> "none"]
    ELSE [status |-> "ok", error |-> "none",
          nowcast |-> IF library = "ok" THEN "filtered" ELSE "basic"]

\* mutant: every row of the forecast frame is converted
to_json_converted(rows) == [status |-> "ok", error |-> "none", points |-> rows]

\* KalmanFilterSeaLevel.to_json: "for idx, row in forecast_df.itertuples()"
\* unpacks a tuple of the index and every column into two names, which
\* raises ValueError for every row; only an empty frame is converted
to_json(rows) ==
    IF rows > 0
    THEN [status |-> "raise", error |-> "ValueError", points |-> 0]
    ELSE [status |-> "ok", error |-> "none", points |-> 0]

\* timedelta.seconds: the seconds of the difference within its last day
timedelta_seconds(delta) == delta % SECONDS_PER_DAY

cache_key(station, steps) == <<"kalman", station, steps>>

cache_hit(cache, key, t) ==
    /\ key \in DOMAIN cache
    /\ timedelta_seconds(t - cache[key].cached_time) < CACHE_EXPIRY

\* MODEL_CACHE[cache_key] = (datetime.now(), result)
cache_put(cache, key, t, result) ==
    [k \in DOMAIN cache \cup {key} |->
        IF k = key THEN [cached_time |-> t, cached_result |-> result]
        ELSE cache[k]]

ForecastResult(model, station, steps, points, t) ==
    [kind |-> "list", model |-> model, station |-> station, steps |-> steps,
     points |-> points, computed_at |-> t]

\* mutant: a failed prediction leaves an entry without result in the cache
prediction_failed_cached(cache, key, t) ==
    [cache |-> cache_put(cache, key, t, PyNone), result |-> PyNone]

\* "except Exception": logged, None returned, the cache as it was
prediction_failed(cache, key, t) == [cache |-> cache, result |-> PyNone]

\* the forecast converted, the nowcast put in front, the result cached
prediction_converted(cache, key, t, station, steps, j) ==
    IF j.status # "ok" THEN prediction_failed(cache, key, t)
    ELSE [cache |-> cache_put(cache, key, t,
                       ForecastResult("kalman", station, steps,
                                      j.points + 1, t)),
          result |-> ForecastResult("kalman", station, steps,
                                    j.points + 1, t)]

prediction_forecast(cache, key, t, station, steps, f) ==
    IF f.status # "ok" THEN prediction_failed(cache, key, t)
    ELSE prediction_converted(cache, key, t, station, steps, to_json(f.rows))

prediction_fitted(cache, key, t, station, steps, library, m) ==
    IF m.status # "ok" THEN prediction_failed(cache, key, t)
    ELSE prediction_forecast(cache, key, t, station, steps,
                             forecast(m.kalman_model, steps, library))

\* kalman_predict(station, steps) at time t, on the rows that
\* get_prediction_data returns
kalman_predict(cache, t, station, steps, rows, library) ==
    IF cache_hit(cache, cache_key(station, steps), t)
    THEN [cache |-> cache,
          result |-> cache[cache_key(station, steps)].cached_result]
    ELSE IF rows < KALMAN_MIN_ROWS
    THEN [cache |-> cache, result |-> PyNone]
    ELSE prediction_fitted(cache, cache_key(station, steps), t, station,
                           steps, library, fit(NewKalman, rows, library))

\* arima_predict(station, steps): one point for every step
arima_predict(t, station, steps, rows, library) ==
    IF rows < ARIMA_MIN_ROWS THEN PyNone
    ELSE IF library # "ok" THEN PyNone
    ELSE ForecastResult("arima", station, steps, steps, t)

\* "if result:" - None and the empty list are false
Truthy(result) == result.kind = "list" /\ result.points > 0

\* mutant: a failed prediction is reported as it is, None
OrSame(result) == result

OrEmpty(result) == IF Truthy(result) THEN result ELSE EmptyList

NotRequested == [kind |-> "absent"]

ModelsUsed(models) == models \cap {"kalman", "arima"}

\* the results of one station, kalman_predict having returned p
station_results(t, station, steps, models, e, p) ==
    [kalman |-> IF "kalman" \in models THEN OrEmpty(p.result)
                ELSE NotRequested,
     arima |-> IF "arima" \in models
               THEN OrEmpty(arima_predict(t, station, steps, e.rows,
                                          e.arima_library))
               ELSE NotRequested,
     metadata |-> [station |-> station, forecast_hours |-> steps,
                   models_used |-> ModelsUsed(models)]]

station_prediction(cache, t, station, steps, models, e) ==
    IF "kalman" \in models
    THEN kalman_predict(cache, t, station, steps, e.rows, e.library)
    ELSE [cache |-> cache, result |-> PyNone]

\* results[station] = station_results
WithStation(results, station, r) ==
    [x \in DOMAIN results \cup {station} |->
        IF x = station THEN r ELSE results[x]]

RECURSIVE handler_stations(_, _, _, _, _, _, _)
RECURSIVE handler_station(_, _, _, _, _, _, _, _)
\* one station of the loop: p is what kalman_predict made of the cache
handler_station(p, t, stations, steps, models, env, results, i) ==
    handler_stations(p.cache, t, stations, steps, models, env,
                     WithStation(results, stations[i],
                                 station_results(t, stations[i], steps,
                                                 models, env[stations[i]],
                                                 p)))

\* "for station in stations", from the station after the Len(results
\* so far) first ones; stations are distinct
handler_stations(cache, t, stations, steps, models, env, results) ==
    IF Cardinality(DOMAIN results) >= Len(stations)
    THEN [cache |-> cache, results |-> results]
    ELSE handler_station(
             station_prediction(cache, t,
                 stations[Cardinality(DOMAIN results) + 1], steps, models,
                 env[stations[Cardinality(DOMAIN results) + 1]]),
             t, stations, steps, models, env, results,
             Cardinality(DOMAIN results) + 1)

handler_response(stations, steps, models, h) ==
    [cache |-> h.cache,
     statusCode |-> 200,
     results |-> h.results,
     global_metadata |-> [stations |-> stations,
                          total_stations |-> Len(stations),
                          forecast_hours |-> steps,
                          requested_models |-> models]]

\* handler(event, context) for models among kalman and arima
handler(cache, t, stations, steps, models, env) ==
    IF stations = <<>>
    THEN [cache |-> cache, statusCode |-> 400, results |-> <<>>,
          global_metadata |-> PyNone]
    ELSE handler_response(stations, steps, models,
             handler_stations(cache, t, stations, steps, models, env, <<>>))

(***************************************************************************)
(* The prediction service: calls of kalman_predict and of the handler,     *)
(* and the clock.  The engine of the baseline rules is not involved.       *)
(***************************************************************************)
\* instants within the hour, at the hour and beyond a day
Instants == {0, 1800, 3600, 88200}

PredStations == {"Haifa", "Yafo"}

\* no forecast at all, and the default of ten days
StepsChoices == {0, 240}

RowsChoices == {47, 48}

\* what get_prediction_data and the libraries give for one station
EnvChoices ==
    {[rows |-> 47, library |-> "ok", arima_library |-> "ok"],
     [rows |-> 48, library |-> "ok", arima_library |-> "ok"],
     [rows |-> 48, library |-> "fit_error", arima_library |-> "ok"],
     [rows |-> 48, library |-> "forecast_error",
      arima_library |-> "fit_error"]}

StationLists ==
    {<<>>, <<"Haifa">>, <<"Haifa", "Yafo">>, <<"Yafo", "Haifa">>}

ModelChoices == {{"kalman"}, {"kalman", "arima"}}

BaselineIdle ==
    /\ df = <<>>
    /\ stats = InitStats
    /\ pc = "ready"
    /\ ret = NoCall

InitPred ==
    /\ BaselineIdle
    /\ PredictionsIdle

\* time passes
Tick ==
    /\ \E t \in Instants : t > now /\ now' = t
    /\ UNCHANGED <<df, stats, pc, ret, MODEL_CACHE, kalman_model>>
    /\ UNCHANGED regime_vars

PredictReturned(station, steps, rows, library, r) ==
    /\ MODEL_CACHE' = r.cache
    /\ ret' = [op |-> "kalman_predict", station |-> station,
               steps |-> steps, rows |-> rows, library |-> library,
               at |-> now, result |-> r.result]
    /\ UNCHANGED <<df, stats, pc, now, kalman_model>>
    /\ UNCHANGED regime_vars

KalmanPredict ==
    \E station \in PredStations, steps \in StepsChoices,
       rows \in RowsChoices, library \in LibraryOutcomes :
        PredictReturned(station, steps, rows, library,
            kalman_predict(MODEL_CACHE, now, station, steps, rows, library))

HandlerReturned(stations, steps, models, env, r) ==
    /\ MODEL_CACHE' = r.cache
    /\ ret' = [op |-> "handler", stations |-> stations, steps |-> steps,
               models |-> models, env |-> env, at |-> now,
               statusCode |-> r.statusCode, results |-> r.results,
               global_metadata |-> r.global_metadata]
    /\ UNCHANGED <<df, stats, pc, now, kalman_model>>
    /\ UNCHANGED regime_vars

Handler ==
    \E stations \in StationLists, steps \in StepsChoices,
       models \in ModelChoices :
      \E env \in [Range(stations) -> EnvChoices] :
        HandlerReturned(stations, steps, models, env,
            handler(MODEL_CACHE, now, stations, steps, models, env))

NextPred ==
    \/ Tick
    \/ KalmanPredict
    \/ Handler

SpecPred == InitPred /\ [][NextPred]_vars

(***************************************************************************)
(* ensemble_predict.  A prediction is a list of points; what matters here  *)
(* is the hour each point is for, counted from the last observation: the   *)
(* nowcast that kalman_predict puts in front is for hour 0 and is followed *)
(* by the forecast hours 1, 2, ...; the i-th point of arima_predict is for *)
(* hour i.  Weights are in tenths.                                         *)
(***************************************************************************)
KALMAN_WEIGHT == 5

ARIMA_WEIGHT == 3

\* the hours of the points of a prediction that is not empty
point_hours(result) ==
    IF result.model = "kalman" THEN [i \in 1..result.points |-> i - 1]
    ELSE [i \in 1..result.points |-> i]

\* predictions[model] = the prediction, weights[model] = its weight
member(model, weight, result) ==
    IF Truthy(result)
    THEN <<[model |-> model, weight |-> weight, hours |-> point_hours(result)]>>
    ELSE <<>>

RECURSIVE total_weight(_)
\* sum(weights.values())
total_weight(members) ==
    IF members = <<>> THEN 0
    ELSE Head(members).weight + total_weight(Tail(members))

\* the members that have a point of index i
members_at(members, i) == SelectSeq(members, LAMBDA m : i <= Len(m.hours))

\* one combined point: ds is that of the first member, every member adds
\* its point of the same index with its normalized weight
combined_point(at, total, i) ==
    [ds |-> at[1].hours[i],
     terms |-> [j \in 1..Len(at) |->
                   [model |-> at[j].model, weight |-> at[j].weight,
                    of |-> total, hour |-> at[j].hours[i]]]]

\* "for i in range(steps)": a point for every index some member has
combined(members, total, steps) ==
    [i \in 1..Cardinality({n \in 1..steps : members_at(members, n) # <<>>})
        |-> combined_point(members_at(members, i), total, i)]

ensemble_of(cache, members, steps) ==
    IF members = <<>> THEN [cache |-> cache, result |-> PyNone]
    ELSE [cache |-> cache,
          result |-> [kind |-> "ensemble",
                      points |-> combined(members, total_weight(members),
                                          steps)]]

\* ensemble_predict(station, steps), p being what kalman_predict returned
\* and a what arima_predict returned
ensemble_members(p, a, steps) ==
    ensemble_of(p.cache,
                member("kalman", KALMAN_WEIGHT, p.result)
                    \o member("arima", ARIMA_WEIGHT, a),
                steps)

ensemble_predict(cache, t, station, steps, e) ==
    ensemble_members(kalman_predict(cache, t, station, steps, e.rows,
                                    e.library),
                     arima_predict(t, station, steps, e.rows,
                                   e.arima_library),
                     steps)

\* forecast horizons of the ensemble, in hours
EnsembleSteps == {0, 1, 24}

EnsembleReturned(station, steps, e, r) ==
    /\ MODEL_CACHE' = r.cache
    /\ ret' = [op |-> "ensemble_predict", station |-> station,
               steps |-> steps, env |-> e, at |-> now, result |-> r.result]
    /\ UNCHANGED <<df, stats, pc, now, kalman_model>>
    /\ UNCHANGED regime_vars

EnsemblePredict ==
    \E station \in PredStations, steps \in EnsembleSteps, e \in EnvChoices :
        EnsembleReturned(station, steps, e,
                         ensemble_predict(MODEL_CACHE, now, station, steps, e))

NextEnsemble ==
    \/ Tick
    \/ EnsemblePredict

SpecEnsemble == InitPred /\ [][NextEnsemble]_vars

(***************************************************************************)
(* One engine called again and again on the readings of one timestamp:     *)
(* validations with any exclude argument, and baseline calculations in     *)
(* between.  pc keeps, for every exclude argument, what the first          *)
(* validation with it returned.                                            *)
(***************************************************************************)
\* the validations one engine performs at most
MaxCalls == 3

RepeatFrames == {d \in OneRowFrames : Columns(d) \subseteq Range(SOUTHERN_STATIONS)}

InitRepeat ==
    /\ df \in RepeatFrames
    /\ stats = InitStats
    /\ pc = <<>>
    /\ ret = NoCall
    /\ PredictionsIdle

\* the excluded_stations list of validate_southern_stations
excluded_stations(data, valid) ==
    SelectSeq(data, LAMBDA s : s \notin Range(valid))

ValidationReturn(exclude_station, data, r) ==
    [op |-> "validate_southern_stations",
     exclude_station |-> exclude_station,
     call |-> r.stats.southern_validations,
     valid_stations |-> r.valid_stations,
     valid_values |-> r.valid_values,
     excluded_stations |-> excluded_stations(data, r.valid_stations)]

FirstOutcomes(log, exclude_station, returned) ==
    IF exclude_station \in DOMAIN log THEN log
    ELSE [x \in DOMAIN log \cup {exclude_station} |->
             IF x = exclude_station THEN returned ELSE log[x]]

ValidatedAgain(exclude_station, returned, st) ==
    /\ stats' = st
    /\ ret' = returned
    /\ pc' = FirstOutcomes(pc, exclude_station, returned)
    /\ UNCHANGED df
    /\ UNCHANGED prediction_vars

ValidateAgain ==
    /\ stats.southern_validations < MaxCalls
    /\ \E exclude_station \in ExcludeChoices :
          ValidatedAgain(exclude_station,
              ValidationReturn(exclude_station,
                  station_data(PivotRow(df, 0), exclude_station),
                  validate_southern_stations(stats, PivotRow(df, 0),
                                             exclude_station)),
              validate_southern_stations(stats, PivotRow(df, 0),
                                         exclude_station).stats)

CalculatedBetween(exclude_station, r) ==
    /\ stats' = r.stats
    /\ ret' = [op |-> "calculate_southern_baseline",
               exclude_station |-> exclude_station,
               baseline |-> r.baseline,
               num_sources |-> r.num_sources,
               source_stations |-> r.source_stations]
    /\ UNCHANGED <<df, pc>>
    /\ UNCHANGED prediction_vars

CalculateBetween ==
    /\ stats.southern_validations < MaxCalls
    /\ \E exclude_station \in ExcludeChoices :
          CalculatedBetween(exclude_station,
              calculate_southern_baseline(stats, PivotRow(df, 0),
                                          exclude_station))

NextRepeat ==
    \/ ValidateAgain
    \/ CalculateBetween

SpecRepeat == InitRepeat /\ [][NextRepeat]_vars

(***************************************************************************)
(* The forecaster alone: a KalmanFilterSeaLevel, fitted and asked for      *)
(* forecasts in any order.                                                 *)
(***************************************************************************)
\* hourly points of the histories: an hour, a day, around two days, three
HourChoices == {1, 24, 47, 48, 49, 72}

InitKalman ==
    /\ BaselineIdle
    /\ PredictionsIdle

\* KalmanFilterSeaLevel(config)
NewForecaster ==
    /\ kalman_model' = NewKalman
    /\ ret' = NoCall
    /\ UNCHANGED <<df, stats, pc, MODEL_CACHE, now>>
    /\ UNCHANGED regime_vars

FitReturned(rows, library, r) ==
    /\ kalman_model' = r.kalman_model
    /\ ret' = [op |-> "fit", rows |-> rows, library |-> library,
               status |-> r.status, error |-> r.error,
               attempts |-> r.attempts]
    /\ UNCHANGED <<df, stats, pc, MODEL_CACHE, now>>
    /\ UNCHANGED regime_vars

Fit ==
    \E rows \in HourChoices, library \in {"ok", "fit_error"} :
        FitReturned(rows, library, fit(kalman_model, rows, library))

ForecastReturned(steps, library, r) ==
    /\ ret' = [op |-> "forecast", steps |-> steps, library |-> library,
               status |-> r.status, error |-> r.error, rows |-> r.rows]
    /\ UNCHANGED <<df, stats, pc, MODEL_CACHE, now, kalman_model>>
    /\ UNCHANGED regime_vars

Forecast ==
    \E steps \in StepsChoices, library \in {"ok", "forecast_error"} :
        ForecastReturned(steps, library,
                         forecast(kalman_model, steps, library))

\* update, decompose and get_nowcast leave the forecaster as it is
QueryReturned(op, library, r) ==
    /\ ret' = [op |-> op, library |-> library, status |-> r.status,
               error |-> r.error]
    /\ UNCHANGED <<df, stats, pc, MODEL_CACHE, now, kalman_model>>
    /\ UNCHANGED regime_vars

Update == QueryReturned("update", "ok", update(kalman_model))

Decompose ==
    \E library \in {"ok", "caught_error"} :
        QueryReturned("decompose", library, decompose(kalman_model, library))

GetNowcast ==
    \E library \in {"ok", "caught_error", "other_error"} :
        QueryReturned("get_nowcast", library,
                      get_nowcast(kalman_model, library))

NextKalman ==
    \/ NewForecaster
    \/ Fit
    \/ Forecast
    \/ Update
    \/ Decompose
    \/ GetNowcast

SpecKalman == InitKalman /\ [][NextKalman]_vars

(***************************************************************************)
(* RegimeSwitchingKalman.  Probabilities are in hundredths, levels in      *)
(* millimetres; a weighted level is therefore in millimetres times 100.    *)
(* What hmmlearn answers to a detection and what statsmodels answers to a  *)
(* forecast are inputs of predict.                                         *)
(***************************************************************************)
\* SeaLevelRegime, in the order of its values 0..3 and of regime_configs
REGIMES == <<"CALM", "MODERATE", "SURGE", "STORM">>

\* regime.value, counted from 1
regime_index(regime) == CHOOSE i \in 1..Len(REGIMES) : REGIMES[i] = regime

\* the matrix train_hmm installs, row -> column
TRANSMAT ==
    <<<<95, 4, 1, 0>>,
      <<10, 80, 9, 1>>,
      <<5, 15, 70, 10>>,
      <<2, 8, 20, 70>>>>

\* np.array([1.0, 0.0, 0.0, 0.0])
CERTAIN_CALM == <<100, 0, 0, 0>>

\* [0.25] * 4
UNIFORM == <<25, 25, 25, 25>>

\* regime_configs[regime].surge_threshold
surge_threshold(regime) ==
    CASE regime = "CALM" -> 100
      [] regime = "MODERATE" -> 300
      [] regime = "SURGE" -> 500
      [] OTHER -> 1000

\* the fixed band of the fallback path of forecast, 0.1 m
FALLBACK_BAND == 100

HISTORY_REPORTED == 24

RECENT_REGIMES == 3

\* train_hmm: the detector is assigned before it is fitted, the matrix is
\* set after the fit; a fit that raises leaves an unfitted detector
train_hmm(library) ==
    IF library = "fit_error"
    THEN [hmm_model |-> [kind |-> "GaussianHMM", fitted |-> FALSE,
                         transmat_ |-> PyNone],
          status |-> "raise"]
    ELSE [hmm_model |-> [kind |-> "GaussianHMM", fitted |-> TRUE,
                         transmat_ |-> TRANSMAT],
          status |-> "ok"]

\* mutant: without a detector every regime is given as equally likely
detect_regime_uniform(hmm, detection) ==
    IF hmm = PyNone \/ detection.regime = "error"
    THEN [regime |-> "CALM", probs |-> <<25, 25, 25, 0>>]
    ELSE IF ~hmm.fitted THEN [regime |-> "CALM", probs |-> CERTAIN_CALM]
    ELSE detection

\* detect_regime: detection is what hmm_model.predict and score_samples
\* answer, the regime "error" when either raises; an unfitted detector
\* raises
detect_regime(hmm, detection) ==
    IF hmm = PyNone THEN [regime |-> "CALM", probs |-> CERTAIN_CALM]
    ELSE IF ~hmm.fitted \/ detection.regime = "error"
    THEN [regime |-> "CALM", probs |-> CERTAIN_CALM]
    ELSE detection

\* initialize_kalman_filters: a forecaster fitted for every regime, in the
\* order of regime_configs; the first fit that raises ends the loop
initialize_kalman_filters(filters, rows, library) ==
    IF library = "fit_error"
    THEN [kalman_filters |-> filters, status |-> "raise"]
    ELSE [kalman_filters |->
              [r \in Range(REGIMES) |->
                  fit(NewKalman, rows, library).kalman_model],
          status |-> "ok"]

\* one row of the frame forecast returns: the interval of get_forecast, or
\* the fallback band around the plain forecast
forecast_row(o, i) ==
    IF o.path = "interval"
    THEN [yhat |-> o.yhat[i], yhat_lower |-> o.yhat[i] - o.half,
          yhat_upper |-> o.yhat[i] + o.half]
    ELSE [yhat |-> o.yhat[i], yhat_lower |-> o.yhat[i] - FALLBACK_BAND,
          yhat_upper |-> o.yhat[i] + FALLBACK_BAND]

\* KalmanFilterSeaLevel.forecast with its values: o is what statsmodels
\* does, path "interval", "fallback" (get_forecast raised) or "raise"
forecast_values(k, o) ==
    IF k.fitted_model = PyNone \/ o.path = "raise"
    THEN [status |-> "raise", frame |-> <<>>]
    ELSE [status |-> "ok",
          frame |-> [i \in 1..Len(o.yhat) |-> forecast_row(o, i)]]

\* predictions: the forecasts of the filters that did not raise, in the
\* order of the dict
forecast_of(filters, f, regime) ==
    IF regime \in DOMAIN filters
       /\ forecast_values(filters[regime], f[regime]).status = "ok"
    THEN <<[regime |-> regime,
            frame |-> forecast_values(filters[regime], f[regime]).frame]>>
    ELSE <<>>

predictions_of(filters, f) ==
    forecast_of(filters, f, REGIMES[1]) \o forecast_of(filters, f, REGIMES[2])
        \o forecast_of(filters, f, REGIMES[3])
        \o forecast_of(filters, f, REGIMES[4])

\* mutant: the bounds of the first forecast are left unweighted
weighted_first_bounds(frame, weight) ==
    [i \in 1..Len(frame) |->
        [yhat |-> frame[i].yhat * weight,
         yhat_lower |-> frame[i].yhat_lower * 100,
         yhat_upper |-> frame[i].yhat_upper * 100]]

\* weighted_forecast = forecast.copy(), its three columns times weight
weighted_first(frame, weight) ==
    [i \in 1..Len(frame) |->
        [yhat |-> frame[i].yhat * weight,
         yhat_lower |-> frame[i].yhat_lower * weight,
         yhat_upper |-> frame[i].yhat_upper * weight]]

\* mutant: the forecasts after the first are added whole
weighted_add_whole(weighted, frame, weight) ==
    [i \in 1..Len(weighted) |->
        [yhat |-> weighted[i].yhat + frame[i].yhat * 100,
         yhat_lower |-> weighted[i].yhat_lower + frame[i].yhat_lower * 100,
         yhat_upper |-> weighted[i].yhat_upper + frame[i].yhat_upper * 100]]

\* weighted_forecast[column] += forecast[column] * weight
weighted_add(weighted, frame, weight) ==
    [i \in 1..Len(weighted) |->
        [yhat |-> weighted[i].yhat + frame[i].yhat * weight,
         yhat_lower |-> weighted[i].yhat_lower + frame[i].yhat_lower * weight,
         yhat_upper |-> weighted[i].yhat_upper + frame[i].yhat_upper * weight]]

RECURSIVE weighted_rest(_, _, _)
weighted_rest(weighted, predictions, probs) ==
    IF predictions = <<>> THEN weighted
    ELSE weighted_rest(
             weighted_add(weighted, Head(predictions).frame,
                          probs[regime_index(Head(predictions).regime)]),
             Tail(predictions), probs)

\* the loop over predictions.items()
weighted_forecast(predictions, probs) ==
    weighted_rest(
        weighted_first(Head(predictions).frame,
                       probs[regime_index(Head(predictions).regime)]),
        Tail(predictions), probs)

EmptyFrame == [kind |-> "DataFrame", rows |-> <<>>]

\* what predict returns after the detection d and the forecasts
predict_frame(d, predictions) ==
    IF predictions = <<>> THEN EmptyFrame
    ELSE [kind |-> "DataFrame",
          rows |-> weighted_forecast(predictions, d.probs),
          regime |-> d.regime,
          regime_probability |-> d.probs[regime_index(d.regime)],
          surge_warning |-> d.regime \in {"SURGE", "STORM"},
          surge_level |-> IF d.regime \in {"SURGE", "STORM"}
                          THEN surge_threshold(d.regime) ELSE 0]

\* self.regime_history[-k:]
LastOf(list, k) ==
    IF Len(list) <= k THEN list ELSE SubSeq(list, Len(list) - k + 1, Len(list))

current_probs(probabilities) ==
    IF probabilities = <<>> THEN UNIFORM ELSE probabilities[Len(probabilities)]

\* P(Surge) + P(Storm)
surge_prob(probs) == probs[regime_index("SURGE")] + probs[regime_index("STORM")]

surge_risk(p) ==
    IF p > 70 THEN "High"
    ELSE IF p > 40 THEN "Moderate"
    ELSE IF p > 20 THEN "Low-Moderate"
    ELSE "Low"

risk_warnings(p) ==
    IF p > 70 THEN <<"HIGH SURGE RISK">>
    ELSE IF p > 40 THEN <<"MODERATE SURGE RISK">>
    ELSE IF p > 20 THEN <<"Monitor conditions">>
    ELSE <<>>

\* mutant: the transition is looked for in the whole history
transition_warnings_ever(history) ==
    IF Len(history) >= RECENT_REGIMES
       /\ "CALM" \in Range(history)
       /\ "SURGE" \in Range(history)
    THEN <<"RAPID TRANSITION">>
    ELSE <<>>

transition_warnings(history) ==
    IF Len(history) >= RECENT_REGIMES
       /\ "CALM" \in Range(LastOf(history, RECENT_REGIMES))
       /\ "SURGE" \in Range(LastOf(history, RECENT_REGIMES))
    THEN <<"RAPID TRANSITION">>
    ELSE <<>>

regime_report(history, probs) ==
    [current_regime |-> history[Len(history)],
     regime_probability |-> probs[regime_index(history[Len(history)])],
     regime_distribution |-> probs,
     surge_risk |-> surge_risk(surge_prob(probs)),
     surge_probability |-> surge_prob(probs),
     warnings |-> risk_warnings(surge_prob(probs))
                      \o transition_warnings(history),
     regime_history |-> LastOf(history, HISTORY_REPORTED)]

get_regime_analysis(history, probabilities) ==
    IF history = <<>>
    THEN [current_regime |-> "Unknown", regime_probability |-> 0,
          surge_risk |-> "Low", warnings |-> <<>>]
    ELSE regime_report(history, current_probs(probabilities))

\* what save_model pickles of the state (regime_configs never changes)
pickled(hmm, history) == [hmm_model |-> hmm, regime_history |-> history]

(***************************************************************************)
(* One RegimeSwitchingKalman: trained, given its filters, asked for        *)
(* predictions and for its analysis, saved and loaded, in any order.  It   *)
(* starts new, or after EarlierDetections calls of predict made without a  *)
(* detector, which all detected CALM.  pc counts the calls of predict      *)
(* since.                                                                  *)
(***************************************************************************)
MaxPredicts == 3

EarlierDetections == {0, 22}

\* hmm_model.predict or score_samples raised
DetectionError == [regime |-> "error", probs |-> <<>>]

\* what the detector can answer: the regime is the likeliest one
DetectionChoices ==
    {[regime |-> "CALM", probs |-> CERTAIN_CALM],
     [regime |-> "SURGE", probs |-> <<5, 15, 60, 20>>],
     [regime |-> "STORM", probs |-> <<0, 5, 20, 75>>],
     DetectionError}

Interval(yhat, half) == [path |-> "interval", yhat |-> yhat, half |-> half]

Fallback(yhat) == [path |-> "fallback", yhat |-> yhat, half |-> 0]

Raised == [path |-> "raise", yhat |-> <<>>, half |-> 0]

\* what the four forecasts do, two steps each
ForecastChoices ==
    {[r \in Range(REGIMES) |-> Interval(<<320, 330>>, 40)],
     [r \in Range(REGIMES) |->
         IF r = "CALM" THEN Interval(<<320, 330>>, 40)
         ELSE Fallback(<<900, 1200>>)],
     [r \in Range(REGIMES) |->
         IF r = "CALM" THEN Fallback(<<-50, 20>>)
         ELSE IF r = "STORM" THEN Raised ELSE Interval(<<600, 650>>, 0)],
     [r \in Range(REGIMES) |->
         IF r = "CALM" THEN Interval(<<320, 330>>, 40) ELSE Raised],
     [r \in Range(REGIMES) |->
         IF r = "CALM" THEN Raised ELSE Interval(<<600, 650>>, 150)]}

InitRegime ==
    /\ df = <<>>
    /\ stats = InitStats
    /\ ret = NoCall
    /\ MODEL_CACHE = <<>>
    /\ now = 0
    /\ kalman_model = NewKalman
    /\ hmm_model = PyNone
    /\ kalman_filters = <<>>
    /\ current_regime = "CALM"
    /\ pickle_file = PyNone
    /\ \E n \in EarlierDetections :
          /\ regime_history = [i \in 1..n |-> "CALM"]
          /\ regime_probabilities = [i \in 1..n |-> CERTAIN_CALM]
    /\ pc = 0

RegimeIdleRest == UNCHANGED <<df, stats, MODEL_CACHE, now, kalman_model>>

TrainReturned(library, r) ==
    /\ hmm_model' = r.hmm_model
    /\ ret' = [op |-> "train_hmm", library |-> library, status |-> r.status]
    /\ UNCHANGED <<pc, kalman_filters, current_regime, regime_history,
                   regime_probabilities, pickle_file>>
    /\ RegimeIdleRest

TrainHmm ==
    \E library \in {"ok", "fit_error"} :
        TrainReturned(library, train_hmm(library))

FiltersReturned(library, r) ==
    /\ kalman_filters' = r.kalman_filters
    /\ ret' = [op |-> "initialize_kalman_filters", library |-> library,
               status |-> r.status]
    /\ UNCHANGED <<pc, hmm_model, current_regime, regime_history,
                   regime_probabilities, pickle_file>>
    /\ RegimeIdleRest

InitializeKalmanFilters ==
    \E library \in {"ok", "fit_error"} :
        FiltersReturned(library,
            initialize_kalman_filters(kalman_filters, KALMAN_MIN_ROWS,
                                      library))

Predicted(detection, f, d, predictions) ==
    /\ current_regime' = d.regime
    /\ regime_probabilities' = Append(regime_probabilities, d.probs)
    /\ regime_history' = Append(regime_history, d.regime)
    /\ pc' = pc + 1
    /\ ret' = [op |-> "predict", detection |-> detection, forecasts |-> f,
               regime |-> d.regime, probs |-> d.probs,
               trained |-> hmm_model # PyNone,
               predictions |-> predictions,
               result |-> predict_frame(d, predictions)]
    /\ UNCHANGED <<hmm_model, kalman_filters, pickle_file>>
    /\ RegimeIdleRest

Predict ==
    /\ pc < MaxPredicts
    /\ \E detection \in DetectionChoices, f \in ForecastChoices :
          Predicted(detection, f, detect_regime(hmm_model, detection),
                    predictions_of(kalman_filters, f))

GetRegimeAnalysis ==
    /\ ret' = [op |-> "get_regime_analysis",
               report |-> get_regime_analysis(regime_history,
                                              regime_probabilities)]
    /\ UNCHANGED <<pc, regime_vars>>
    /\ RegimeIdleRest

SaveModel ==
    /\ pickle_file' = pickled(hmm_model, regime_history)
    /\ ret' = [op |-> "save_model"]
    /\ UNCHANGED <<pc, hmm_model, kalman_filters, current_regime,
                   regime_history, regime_probabilities>>
    /\ RegimeIdleRest

\* load_model: open raises when nothing was saved
LoadModel ==
    /\ IF pickle_file = PyNone
       THEN /\ ret' = [op |-> "load_model", status |-> "raise"]
            /\ UNCHANGED <<hmm_model, regime_history>>
       ELSE /\ ret' = [op |-> "load_model", status |-> "ok"]
            /\ hmm_model' = pickle_file.hmm_model
            /\ regime_history' = pickle_file.regime_history
    /\ UNCHANGED <<pc, kalman_filters, current_regime,
                   regime_probabilities, pickle_file>>
    /\ RegimeIdleRest

NextRegime ==
    \/ TrainHmm
    \/ InitializeKalmanFilters
    \/ Predict
    \/ GetRegimeAnalysis
    \/ SaveModel
    \/ LoadModel

SpecRegime == InitRegime /\ [][NextRegime]_vars

(***************************************************************************)
(* Properties.  What follows states the claims about the code above; it    *)
(* reads the arguments and the result of the call that returned (ret) and  *)
(* the frame it was given (df).                                            *)
(***************************************************************************)
FrameOps ==
    {"process_dataframe", "detect_asynchronous_outliers",
     "detect_anomalies_with_rules"}

\* the row the call was given, for the calls that take one
RetRow == PivotRow(df, ret.timestamp)

\* the reference stations with a reading in row, but for exclude_station
Candidates(row, exclude_station) ==
    {s \in Range(SOUTHERN_STATIONS) : s # exclude_station /\ Present(row, s)}

Agree(row, s, o) ==
    QLe(QAbsDiff(row[s], row[o]), Q(SOUTHERN_VALIDATION_THRESHOLD))

\* the candidates that at least max(1, n div 2) other candidates agree with
MajorityAgreed(row, C) ==
    {s \in C : Cardinality({o \in C \ {s} : Agree(row, s, o)})
                  >= Max(1, Cardinality(C) \div 2)}

\* the reference stations validated at timestamp t of frame d
ValidAt(d, t) ==
    Range(validate_southern_stations(InitStats, PivotRow(d, t),
                                     NoStation).valid_stations)

IsAsyncRow(r) == "Tolerance" \notin DOMAIN r \/ IsNone(r.Tolerance)

\* the frame the asynchronous pass read
AsyncInput ==
    IF ret.op = "detect_anomalies_with_rules"
    THEN process_dataframe(InitStats, df).records
    ELSE df

\* C1: every baseline behind an expected value - of the synchronized pass
\* and of the asynchronous pass - is computed only from readings of
\* reference stations that passed cross-station validation at their
\* timestamp.
C1_BaselineOnlyFromValidated ==
    /\ ret.op = "calculate_southern_baseline" /\ ret.exclude_station = NoStation
        => Range(ret.source_stations) \subseteq ValidAt(df, ret.timestamp)
    /\ ret.op \in FrameOps =>
        \A i \in 1..Len(ret.records) :
            LET r == ret.records[i]
                near == nearby_data(AsyncInput, r.Tab_DateTime)
            IN  IF IsAsyncRow(r)
                THEN \A k \in 1..Len(near) :
                        /\ near[k].Station \in Range(SOUTHERN_STATIONS)
                        /\ near[k].Station \in ValidAt(df, near[k].Tab_DateTime)
                ELSE Range(r.Baseline_Stations)
                        \subseteq ValidAt(df, r.Tab_DateTime)

\* C2: with n >= 2 candidate reference readings, validate_southern_stations
\* retains exactly the stations that at least max(1, n div 2) other
\* candidates agree with within 50 mm (inclusive), in the order of
\* SOUTHERN_STATIONS, with their values; Yafo 320, Ashdod 318, Ashkelon 380
\* retains Yafo and Ashdod.
C2_MajorityAgreement ==
    ret.op = "validate_southern_stations" =>
        LET C == Candidates(RetRow, ret.exclude_station)
        IN  /\ Cardinality(C) >= 2 =>
                /\ ret.valid_stations =
                     SelectSeq(SOUTHERN_STATIONS,
                               LAMBDA s : s \in MajorityAgreed(RetRow, C))
                /\ ret.valid_values =
                     [i \in 1..Len(ret.valid_stations) |->
                         RetRow[ret.valid_stations[i]]]
            /\ (/\ C = {"Yafo", "Ashdod", "Ashkelon"}
                /\ RetRow["Yafo"] = Q(320)
                /\ RetRow["Ashdod"] = Q(318)
                /\ RetRow["Ashkelon"] = Q(380))
                => ret.valid_stations = <<"Yafo", "Ashdod">>

C2_Witness ==
    /\ ret.op = "validate_southern_stations"
    /\ ret.exclude_station = NoStation
    /\ Candidates(RetRow, NoStation) = {"Yafo", "Ashdod", "Ashkelon"}
    /\ RetRow["Yafo"] = Q(320)
    /\ RetRow["Ashdod"] = Q(318)
    /\ RetRow["Ashkelon"] = Q(380)
    /\ ret.valid_stations = <<"Yafo", "Ashdod">>
    /\ ret.valid_values = <<Q(320), Q(318)>>

\* the records of the call that returned, in the columns of a frame
RetRecords ==
    IF ret.op \in FrameOps THEN ret.records
    ELSE IF ret.op = "process_row_with_validation"
    THEN ResultRows(ret.timestamp, ret.results)
    ELSE <<>>

\* C3: every outlier record, of the synchronized and of the asynchronous
\* pass, has is_outlier = (deviation > the station's fixed tolerance),
\* deviation being |actual - expected|.
C3_OutlierIffBeyondTolerance ==
    \A i \in 1..Len(RetRecords) :
        LET r == RetRecords[i]
        IN  /\ r.Deviation = QAbsDiff(r.Tab_Value_mDepthC1, r.Expected_Value)
            /\ r.Is_Outlier = QGt(r.Deviation, get_tolerance(r.Station))

\* C4: in every outlier record, Excluded_From_Baseline implies Is_Outlier.
C4_ExcludedImpliesOutlier ==
    \A i \in 1..Len(RetRecords) :
        RetRecords[i].Excluded_From_Baseline => RetRecords[i].Is_Outlier

\* a reference station excluded by validation has its record, flagged
C4_Witness ==
    /\ ret.op = "process_dataframe"
    /\ \E i \in 1..Len(ret.records) :
          /\ ret.records[i].Excluded_From_Baseline
          /\ ret.records[i].Is_Outlier
          /\ ret.records[i].Station
                \notin ValidAt(df, ret.records[i].Tab_DateTime)

\* the validation the baseline of the call that returned starts from
RetValidation ==
    validate_southern_stations(InitStats, RetRow, ret.exclude_station)

\* b * n = the sum of values
IsMeanOf(b, values) ==
    LET total == QSum(values)
    IN  ~IsNone(b) /\ b.num * Len(values) * total.den = total.num * b.den

\* b is one of values, with at least half of them on either side of it
IsMedianOf(b, values) ==
    LET n == Len(values)
    IN  /\ \E i \in 1..n : values[i] = b
        /\ 2 * Cardinality({i \in 1..n : QLe(values[i], b)}) >= n + 1
        /\ 2 * Cardinality({i \in 1..n : QLe(b, values[i])}) >= n + 1

\* C5: calculate_southern_baseline returns the median of the validated
\* values when there are three or more, their mean when there are one or
\* two, and (absent, 0, no sources) when there are none; num_sources is the
\* number of validated stations.
C5_MedianOrMean ==
    ret.op = "calculate_southern_baseline" =>
        LET values == RetValidation.valid_values
            n == Len(values)
        IN  /\ ret.num_sources = n
            /\ ret.source_stations = RetValidation.valid_stations
            /\ n = 0 => IsNone(ret.baseline) /\ ret.source_stations = <<>>
            /\ n \in {1, 2} => IsMeanOf(ret.baseline, values)
            /\ n >= 3 => IsMedianOf(ret.baseline, values)

\* three validated values whose median is not their mean
C5_Witness ==
    /\ ret.op = "calculate_southern_baseline"
    /\ ret.num_sources = 3
    /\ Len(RetValidation.valid_values) = 3
    /\ IsMedianOf(ret.baseline, RetValidation.valid_values)
    /\ ~IsMeanOf(ret.baseline, RetValidation.valid_values)

\* a rational q is the weighted average sum(v * exp(-age)) / sum(exp(-age))
\* of the terms of w exactly when, for every age, the values of that age
\* sum to as many times q (the powers of e are linearly independent over
\* the rationals)
SameValue(w, q) ==
    /\ ~IsNone(q)
    /\ \A a \in {w.terms[i].age : i \in 1..Len(w.terms)} :
          LET same == SelectSeq(w.terms, LAMBDA x : x.age = a)
          IN  IsMeanOf(q, [i \in 1..Len(same) |-> same[i].value])

\* the records of frame records at timestamp t
RecordsAt(records, t) == SelectSeq(records, LAMBDA r : r.Tab_DateTime = t)

\* C6: where the current baseline of a timestamp has fewer than min_sources
\* (2) sources and the history of the frame has a baseline, the records of
\* that timestamp are computed against the historical baseline, with its
\* number of sources.
C6_HistoricalFallbackUsed ==
    ret.op = "process_dataframe" =>
        \A t \in Timestamps(df) :
            LET c == calculate_southern_baseline(InitStats, PivotRow(df, t),
                                                 NoStation)
                h == get_historical_baseline(df, t, MIN_SOURCES)
            IN  (c.num_sources < MIN_SOURCES /\ h.baseline # None) =>
                    /\ ret.status = "ok"
                    /\ RecordsAt(ret.records, t) # <<>>
                    /\ \A i \in 1..Len(ret.records) :
                          ret.records[i].Tab_DateTime = t =>
                              /\ SameValue(h.baseline, ret.records[i].Baseline)
                              /\ ret.records[i].Baseline_Sources
                                    = h.num_sources

\* the (station, timestamp) pairs of the input frame
InputPairs == {<<df[i].Station, df[i].Tab_DateTime>> : i \in 1..Len(df)}

\* C7: the output holds exactly one record for every (station, timestamp)
\* pair of the input, and none for any other pair.
C7_OneRecordPerReading ==
    ret.op \in {"process_dataframe", "detect_anomalies_with_rules"} =>
        /\ ret.status = "ok"
        /\ \A p \in InputPairs :
              Cardinality({i \in 1..Len(ret.records) :
                              /\ ret.records[i].Station = p[1]
                              /\ ret.records[i].Tab_DateTime = p[2]}) = 1
        /\ \A i \in 1..Len(ret.records) :
              <<ret.records[i].Station, ret.records[i].Tab_DateTime>>
                  \in InputPairs

\* the call is given the only reference reading of a frame with no
\* earlier reading
OnlyReference(s) ==
    /\ ret.op = "calculate_southern_baseline"
    /\ Candidates(RetRow, ret.exclude_station) = {s}
    /\ \A i \in 1..Len(df) : df[i].Tab_DateTime >= ret.timestamp

TwoDisagreeing ==
    /\ ret.op \in {"validate_southern_stations", "calculate_southern_baseline"}
    /\ \E s, o \in Range(SOUTHERN_STATIONS) :
          /\ s # o
          /\ Candidates(RetRow, ret.exclude_station) = {s, o}
          /\ QGt(QAbsDiff(RetRow[s], RetRow[o]),
                 Q(SOUTHERN_VALIDATION_THRESHOLD))

\* C9: with exactly two reference readings more than 50 mm apart, both are
\* excluded: no station is validated and the baseline is absent, from no
\* source.
C9_TwoDisagreeingBothExcluded ==
    TwoDisagreeing =>
        /\ ret.op = "validate_southern_stations" =>
              ret.valid_stations = <<>> /\ ret.valid_values = <<>>
        /\ ret.op = "calculate_southern_baseline" =>
              /\ IsNone(ret.baseline)
              /\ ret.num_sources = 0
              /\ ret.source_stations = <<>>

C9_Witness ==
    /\ TwoDisagreeing
    /\ ret.op = "calculate_southern_baseline"
    /\ ret.exclude_station = NoStation
    /\ IsNone(ret.baseline)
    /\ ret.num_sources = 0

\* the reference stations with a reading in the lookback window of the call
StationsInWindow ==
    {s \in Range(SOUTHERN_STATIONS) :
        \E i \in 1..Len(df) :
            /\ df[i].Station = s
            /\ df[i].Tab_DateTime >= ret.timestamp - LOOKBACK_HOURS
            /\ df[i].Tab_DateTime < ret.timestamp}

\* C10: get_historical_baseline returns a baseline exactly when at least
\* min_sources distinct reference stations have a reading in the window
\* [timestamp - 72 h, timestamp); its num_sources is then their number, at
\* least min_sources, and otherwise (absent, 0).
C10_HistoricalNeedsMinSources ==
    ret.op = "get_historical_baseline" =>
        IF Cardinality(StationsInWindow) >= ret.min_sources
        THEN /\ ret.baseline # None
             /\ ret.num_sources = Cardinality(StationsInWindow)
             /\ ret.num_sources >= ret.min_sources
        ELSE ret.baseline = None /\ ret.num_sources = 0

\* Yafo and Ashdod in the history of an hour that has only Yafo
C10_Witness ==
    /\ ret.op = "get_historical_baseline"
    /\ ret.min_sources = MIN_SOURCES
    /\ StationsInWindow = {"Yafo", "Ashdod"}
    /\ {df[i].Station : i \in {k \in 1..Len(df) :
                                  df[k].Tab_DateTime = ret.timestamp}}
          = {"Yafo"}
    /\ ret.baseline # None
    /\ ret.num_sources = 2

\* the readings of station s in the lookback window of the call
WindowReadings(s) ==
    {i \in 1..Len(df) :
        /\ df[i].Station = s
        /\ df[i].Tab_DateTime >= ret.timestamp - LOOKBACK_HOURS
        /\ df[i].Tab_DateTime < ret.timestamp}

\* C11: in get_historical_baseline every reference station with a reading
\* in [timestamp - 72 h, timestamp) contributes the value of its reading
\* with the greatest timestamp in that window, weighted by the age of that
\* same reading; no other station and no reading outside the window
\* contributes.
C11_MostRecentReadingWeighted ==
    (ret.op = "get_historical_baseline" /\ ret.baseline # None) =>
        /\ {ret.baseline.terms[k].station :
                k \in 1..Len(ret.baseline.terms)} = StationsInWindow
        /\ \A k \in 1..Len(ret.baseline.terms) :
              LET term == ret.baseline.terms[k]
              IN  \E i \in WindowReadings(term.station) :
                      /\ \A j \in WindowReadings(term.station) :
                            df[j].Tab_DateTime <= df[i].Tab_DateTime
                      /\ term.value = df[i].Tab_Value_mDepthC1
                      /\ term.age = ret.timestamp - df[i].Tab_DateTime

\* the current baseline handed to enhance_baseline_calculation
RetCurrent ==
    [baseline |-> ret.current_baseline, num_sources |-> ret.current_sources]

RetOutcome == [baseline |-> ret.baseline, num_sources |-> ret.num_sources]

HistoryAvailable == Cardinality(StationsInWindow) >= ret.min_sources

\* the baseline returned is the weighted average of the history
IsHistorical(b) == "terms" \in DOMAIN b

\* C12: enhance_baseline_calculation returns, in this precedence: the
\* current baseline when it exists with at least min_sources sources; else
\* the historical baseline when the history gives one; else the current
\* baseline when it exists; else (absent, 0) - each with its own number of
\* sources.
C12_EnhancePrecedence ==
    ret.op = "enhance_baseline_calculation" =>
        IF ~IsNone(ret.current_baseline)
           /\ ret.current_sources >= ret.min_sources
        THEN RetOutcome = RetCurrent
        ELSE IF HistoryAvailable
        THEN /\ IsHistorical(ret.baseline)
             /\ {ret.baseline.terms[k].station :
                    k \in 1..Len(ret.baseline.terms)} = StationsInWindow
             /\ ret.num_sources = Cardinality(StationsInWindow)
        ELSE IF ~IsNone(ret.current_baseline)
        THEN RetOutcome = RetCurrent
        ELSE RetOutcome = [baseline |-> None, num_sources |-> 0]

\* an under-supported current baseline gives way to the history
C12_Witness ==
    /\ ret.op = "enhance_baseline_calculation"
    /\ ret.current_baseline = Q(320)
    /\ ret.current_sources = 1
    /\ ret.min_sources = MIN_SOURCES
    /\ HistoryAvailable
    /\ IsHistorical(ret.baseline)
    /\ ret.num_sources = 2

\* station s has a reading of df within ASYNC_WINDOW_HOURS of t
ReadingNear(s, t) ==
    \E k \in 1..Len(df) :
        /\ df[k].Station = s
        /\ df[k].Tab_DateTime >= t - ASYNC_WINDOW_HOURS
        /\ df[k].Tab_DateTime <= t + ASYNC_WINDOW_HOURS

\* C13: detect_asynchronous_outliers emits a record for every Ashkelon
\* reading that has a Yafo and an Ashdod reading within 1 hour; a record
\* deviating from its local baseline by more than the threshold has
\* Is_Outlier true and Excluded_From_Baseline false.
C13_AsyncFlaggedNotExcluded ==
    ret.op = "detect_asynchronous_outliers" =>
        /\ \A i \in 1..Len(df) :
              (/\ df[i].Station = "Ashkelon"
               /\ ReadingNear("Yafo", df[i].Tab_DateTime)
               /\ ReadingNear("Ashdod", df[i].Tab_DateTime))
              => \E k \in 1..Len(ret.records) :
                    /\ ret.records[k].Station = "Ashkelon"
                    /\ ret.records[k].Tab_DateTime = df[i].Tab_DateTime
                    /\ ret.records[k].Tab_Value_mDepthC1
                          = df[i].Tab_Value_mDepthC1
        /\ \A k \in 1..Len(ret.records) :
              QGt(QAbsDiff(ret.records[k].Tab_Value_mDepthC1,
                           ret.records[k].Baseline),
                  Q(SOUTHERN_VALIDATION_THRESHOLD))
              => /\ ret.records[k].Is_Outlier
                 /\ ~ret.records[k].Excluded_From_Baseline

\* the frame get_corrections_api takes its suggestions from
ProcessedFrame == detect_anomalies_with_rules(InitStats, df)

\* C14: the correction report has, for every record flagged as an outlier
\* at a timestamp with a baseline, a suggestion for that station and
\* timestamp whose suggested value is the baseline plus the station's
\* offset, and no suggestion for any other record.
C14_SuggestionPerOutlier ==
    ret.op = "get_corrections_api" =>
        /\ ret.status = "ok"
        /\ ret.total_suggestions = Len(ret.suggestions)
        /\ \A i \in 1..Len(ProcessedFrame.records) :
              LET r == ProcessedFrame.records[i]
              IN  (r.Is_Outlier /\ ~IsNone(r.Baseline)) =>
                    \E k \in 1..Len(ret.suggestions) :
                        /\ ret.suggestions[k].station = r.Station
                        /\ ret.suggestions[k].timestamp = r.Tab_DateTime
                        /\ ret.suggestions[k].suggested_value
                              = QAdd(r.Baseline,
                                     Q(STATION_OFFSETS[r.Station]))
        /\ \A k \in 1..Len(ret.suggestions) :
              \E i \in 1..Len(ProcessedFrame.records) :
                  /\ ProcessedFrame.records[i].Is_Outlier
                  /\ ProcessedFrame.records[i].Station
                        = ret.suggestions[k].station
                  /\ ProcessedFrame.records[i].Tab_DateTime
                        = ret.suggestions[k].timestamp

RECURSIVE SumOf(_, _)
SumOf(f, S) ==
    IF S = {} THEN 0
    ELSE LET x == CHOOSE y \in S : TRUE
         IN  f[x] + SumOf(f, S \ {x})

\* the reference readings of timestamp t that validation excludes
ExcludedAt(t) == Candidates(PivotRow(df, t), NoStation) \ ValidAt(df, t)

\* the statistics reported after the run that returned
RunStats ==
    IF ret.op = "get_outliers_api" THEN ret.validation
    ELSE get_validation_stats(stats)

\* C15: after a processing run, total_validations is the number of
\* timestamps validated, total_exclusions the number of reference readings
\* that validation excluded, and exclusion_rate is
\* 100 * total_exclusions / total_validations (0 without validations).
C15_StatsCountOnce ==
    (ret.op \in {"process_dataframe", "detect_anomalies_with_rules",
                 "get_outliers_api"} /\ ret.status = "ok") =>
        /\ RunStats.total_validations = Cardinality(Timestamps(df))
        /\ RunStats.total_exclusions
              = SumOf([t \in Timestamps(df) |-> Cardinality(ExcludedAt(t))],
                      Timestamps(df))
        /\ RunStats.exclusion_rate
              = IF RunStats.total_validations = 0 THEN Q(0)
                ELSE QNorm(100 * RunStats.total_exclusions,
                           RunStats.total_validations)

\* the counters after a call op for row on an engine with counters st
StatsAfter(st, op, row) ==
    CASE op = "validate_southern_stations" ->
            validate_southern_stations(st, row, NoStation).stats
      [] op = "calculate_southern_baseline" ->
            calculate_southern_baseline(st, row, NoStation).stats
      [] OTHER -> process_row_with_validation(st, row).stats

ThreadRow(t) == PivotRow(df, pc[t].timestamp)

\* the counters after the call of thread 1 and then the call of thread 2
SequentialStats ==
    StatsAfter(StatsAfter(InitStats, pc[1].op, ThreadRow(1)),
               pc[2].op, ThreadRow(2))

AllReturned == \A t \in Threads : pc[t].at = "done"

\* C16: two calls for different timestamps run concurrently on one engine
\* without locking end, in every interleaving, with the outcomes and the
\* counters of the same calls run one after the other.
C16_ConcurrentAsSequential ==
    AllReturned =>
        /\ \A t \in Threads : ret[t] = outcome(pc[t].op, ThreadRow(t))
        /\ stats = SequentialStats

\* the kalman forecasts that the call that returned gave out
ServedForecasts ==
    IF ret.op = "kalman_predict" THEN {ret.result}
    ELSE IF ret.op = "handler"
    THEN {ret.results[x].kalman : x \in DOMAIN ret.results}
    ELSE {}

\* C17: kalman_predict gives out a cached result only while the age of the
\* entry is below the TTL of 3600 seconds; at any age from the TTL on, more
\* than a day included, the forecast is computed anew.
C17_CacheServedOnlyWithinTTL ==
    \A r \in ServedForecasts :
        Truthy(r) => ret.at - r.computed_at < CACHE_EXPIRY

\* the call that returned in the next state wrote the entry of key:
\* enough rows, no library failure, and the entry is what it returned
WrittenBySuccess(key) ==
    /\ MODEL_CACHE'[key].cached_time = ret'.at
    /\ \/ /\ ret'.op = "kalman_predict"
          /\ key = cache_key(ret'.station, ret'.steps)
          /\ ret'.rows >= KALMAN_MIN_ROWS
          /\ ret'.library = "ok"
          /\ ret'.result = MODEL_CACHE'[key].cached_result
       \/ /\ ret'.op = "handler"
          /\ "kalman" \in ret'.models
          /\ \E x \in DOMAIN ret'.results :
                /\ key = cache_key(x, ret'.steps)
                /\ ret'.env[x].rows >= KALMAN_MIN_ROWS
                /\ ret'.env[x].library = "ok"
                /\ ret'.results[x].kalman = MODEL_CACHE'[key].cached_result

\* a creation time with the result computed at that time
CompleteEntry(e) ==
    /\ Truthy(e.cached_result)
    /\ e.cached_result.computed_at = e.cached_time

\* C18: a step writes the cache entry of a key only when the prediction
\* for that key succeeded, and then as a complete (creation time, result)
\* pair; a prediction that fails writes nothing, and no step removes or
\* changes any other entry.
C18_CacheWrittenOnlyOnSuccess ==
    [][/\ DOMAIN MODEL_CACHE \subseteq DOMAIN MODEL_CACHE'
       /\ \A key \in DOMAIN MODEL_CACHE' :
             (key \notin DOMAIN MODEL_CACHE
              \/ MODEL_CACHE'[key] # MODEL_CACHE[key])
             => /\ WrittenBySuccess(key)
                /\ CompleteEntry(MODEL_CACHE'[key])]_vars

\* a fit that failed, with the entry of another key still in the cache
C18_Witness ==
    /\ ret.op = "kalman_predict"
    /\ ret.rows >= KALMAN_MIN_ROWS
    /\ ret.library = "fit_error"
    /\ ret.result = PyNone
    /\ cache_key(ret.station, ret.steps) \notin DOMAIN MODEL_CACHE
    /\ \E key \in DOMAIN MODEL_CACHE : CompleteEntry(MODEL_CACHE[key])

\* the kalman model of station x cannot be fitted or forecast in the call
\* that returned, and the cache has nothing for it
KalmanFails(x) ==
    /\ "kalman" \in ret.models
    /\ ret.env[x].rows < KALMAN_MIN_ROWS \/ ret.env[x].library # "ok"
    /\ cache_key(x, ret.steps) \notin DOMAIN MODEL_CACHE

ArimaFails(x) ==
    /\ "arima" \in ret.models
    /\ ret.env[x].rows < ARIMA_MIN_ROWS \/ ret.env[x].arima_library # "ok"

\* C19: in a request for several stations, a station whose model cannot be
\* fitted or forecast is reported with an empty forecast and its metadata,
\* and every station of the request is processed and returned.
C19_FailingStationReportedEmpty ==
    (ret.op = "handler" /\ ret.stations # <<>>) =>
        /\ ret.statusCode = 200
        /\ DOMAIN ret.results = Range(ret.stations)
        /\ ret.global_metadata.total_stations = Len(ret.stations)
        /\ \A x \in DOMAIN ret.results :
              /\ ret.results[x].metadata.station = x
              /\ ret.results[x].metadata.forecast_hours = ret.steps
              /\ ret.results[x].metadata.models_used = ret.models
              /\ KalmanFails(x) => ret.results[x].kalman = EmptyList
              /\ ArimaFails(x) => ret.results[x].arima = EmptyList
              /\ \A m \in ret.models : ret.results[x][m].kind = "list"
              /\ ("arima" \in ret.models /\ ~ArimaFails(x))
                    => ret.results[x].arima.points = ret.steps

\* the first station fails, the second is still forecast
C19_Witness ==
    /\ ret.op = "handler"
    /\ ret.stations = <<"Haifa", "Yafo">>
    /\ ret.models = {"kalman", "arima"}
    /\ ret.steps = 240
    /\ ret.env["Haifa"].library = "forecast_error"
    /\ ret.results["Haifa"].kalman = EmptyList
    /\ ret.results["Haifa"].arima = EmptyList
    /\ ret.results["Haifa"].metadata.station = "Haifa"
    /\ ret.results["Yafo"].arima.points = 240

\* C20: fit on fewer than 48 hourly points fails with an insufficient-data
\* error and leaves the forecaster unfitted; no fitted model ever comes
\* from fewer than 48 points.
C20_FitNeedsTwoDays ==
    /\ (ret.op = "fit" /\ ret.rows < KALMAN_MIN_ROWS) =>
          /\ ret.status = "raise"
          /\ ret.error = "insufficient_data"
    /\ kalman_model.fitted_model # PyNone =>
          kalman_model.fitted_model.nobs >= KALMAN_MIN_ROWS

\* C21: when the fit of the full specification fails, fit tries the
\* optimizer once more, on a reduced specification, before it gives up; a
\* fit that succeeds at once tries it once.
C21_FitRetriesOnce ==
    ret.op = "fit" =>
        ret.attempts = (IF ret.library = "fit_error" THEN 2 ELSE 1)

QueryOps == {"forecast", "get_nowcast", "decompose", "update"}

\* C29: on a forecaster without fitted results, forecast, get_nowcast,
\* decompose and update fail with "must be fitted" and change nothing;
\* fitted results come only from a fit that completed, and no step other
\* than a new forecaster removes them.
C29_UnfittedQueriesFail ==
    [][/\ (ret'.op \in QueryOps /\ kalman_model.fitted_model = PyNone)
            => /\ ret'.status = "raise"
               /\ ret'.error = "must be fitted"
               /\ kalman_model' = kalman_model
       /\ (kalman_model.fitted_model = PyNone
           /\ kalman_model'.fitted_model # PyNone)
            => /\ ret'.op = "fit"
               /\ ret'.status = "ok"
               /\ ret'.library = "ok"
       /\ (ret'.op \in QueryOps /\ ret'.status = "ok")
            => kalman_model.fitted_model # PyNone]_vars

\* a forecaster whose only fit raised, then asked for its nowcast
C29_Witness ==
    /\ ret.op = "get_nowcast"
    /\ ret.status = "raise"
    /\ ret.error = "must be fitted"
    /\ kalman_model.model # PyNone
    /\ kalman_model.fitted_model = PyNone

\* what a validation returned, without the number of the call
Outcome(r) ==
    [valid_stations |-> r.valid_stations, valid_values |-> r.valid_values,
     excluded_stations |-> r.excluded_stations]

\* C27: a validation on the same readings with the same exclude argument
\* returns what the first such validation of the engine returned: the same
\* valid stations in the same order, the same values, the same excluded
\* stations, whatever was validated before or in between.
C27_ValidateIdempotent ==
    ret.op = "validate_southern_stations" =>
        Outcome(ret) = Outcome(pc[ret.exclude_station])

\* a later validation that excludes a station, after other calls
C27_Witness ==
    /\ ret.op = "validate_southern_stations"
    /\ ret.exclude_station = NoStation
    /\ ret.call >= 3
    /\ pc[NoStation].call = 1
    /\ Cardinality(DOMAIN pc) >= 2
    /\ ret.excluded_stations # <<>>
    /\ ret.valid_stations # <<>>

RECURSIVE TermWeights(_)
TermWeights(terms) ==
    IF terms = <<>> THEN 0 ELSE Head(terms).weight + TermWeights(Tail(terms))

Ordered(row) == row.yhat_lower <= row.yhat /\ row.yhat <= row.yhat_upper

\* C22: every forecast point has lower bound <= mean <= upper bound: in
\* the frames forecast returns, by its interval path and by its fallback
\* path with the fixed band, and in the weighted frame predict returns.
C22_BoundsEncloseMean ==
    ret.op = "predict" =>
        /\ \A j \in 1..Len(ret.predictions) :
              \A i \in 1..Len(ret.predictions[j].frame) :
                  Ordered(ret.predictions[j].frame[i])
        /\ \A i \in 1..Len(ret.result.rows) : Ordered(ret.result.rows[i])

\* a weighted frame of an interval forecast and fallback forecasts, under
\* probabilities that give every regime but one a share
C22_Witness ==
    /\ ret.op = "predict"
    /\ ret.probs = <<5, 15, 60, 20>>
    /\ Len(ret.predictions) = 4
    /\ ret.forecasts["CALM"].path = "interval"
    /\ ret.forecasts["SURGE"].path = "fallback"
    /\ Len(ret.result.rows) = 2
    /\ ret.result.rows[1].yhat_lower < ret.result.rows[1].yhat

\* the Calm filter is there and its forecast did not raise
CalmForecast ==
    /\ ret.predictions # <<>>
    /\ ret.predictions[1].regime = "CALM"

\* C23: under the probabilities [1, 0, 0, 0] predict returns the forecast
\* of the Calm filter, mean and both bounds of every step, and no surge
\* warning, whatever the other filters forecast and whether they raised.
C23_CertainCalmIsCalmForecast ==
    (ret.op = "predict" /\ ret.probs = CERTAIN_CALM /\ CalmForecast) =>
        /\ ret.result.surge_warning = FALSE
        /\ Len(ret.result.rows) = Len(ret.predictions[1].frame)
        /\ \A i \in 1..Len(ret.result.rows) :
              /\ ret.result.rows[i].yhat
                     = 100 * ret.predictions[1].frame[i].yhat
              /\ ret.result.rows[i].yhat_lower
                     = 100 * ret.predictions[1].frame[i].yhat_lower
              /\ ret.result.rows[i].yhat_upper
                     = 100 * ret.predictions[1].frame[i].yhat_upper

\* a trained detector certain of Calm; of the other filters two forecast
\* other levels and one raised
C23_Witness ==
    /\ ret.op = "predict"
    /\ ret.trained
    /\ ret.detection.probs = CERTAIN_CALM
    /\ CalmForecast
    /\ Len(ret.predictions) = 3
    /\ ret.forecasts["STORM"].path = "raise"
    /\ ret.predictions[2].frame # ret.predictions[1].frame
    /\ ret.result.rows # <<>>

SumsToOne(probs) == probs[1] + probs[2] + probs[3] + probs[4] = 100

\* C24: every probability vector sums to 1: what detect_regime returned,
\* its [1, 0, 0, 0] when there is no detector or the detection failed,
\* every vector kept, and the distribution get_regime_analysis reports.
C24_ProbabilitiesSumToOne ==
    /\ ret.op = "predict" => SumsToOne(ret.probs)
    /\ \A i \in 1..Len(regime_probabilities) :
          SumsToOne(regime_probabilities[i])
    /\ (ret.op = "get_regime_analysis"
        /\ "regime_distribution" \in DOMAIN ret.report)
          => SumsToOne(ret.report.regime_distribution)

\* the analysis after a detection that failed and one that did not
C24_Witness ==
    /\ ret.op = "get_regime_analysis"
    /\ hmm_model # PyNone
    /\ pc >= 2
    /\ CERTAIN_CALM \in Range(regime_probabilities)
    /\ ret.report.regime_distribution = <<0, 5, 20, 75>>

\* C25: in the matrix train_hmm installs every diagonal entry is at least
\* 0.70, and Surge -> Storm is 0.20, more than Storm -> Surge.
C25_StickyMatrix ==
    (hmm_model # PyNone /\ hmm_model.fitted) =>
        /\ \A i \in 1..Len(REGIMES) : hmm_model.transmat_[i][i] >= 70
        /\ hmm_model.transmat_[regime_index("SURGE")][regime_index("STORM")]
               = 20
        /\ hmm_model.transmat_[regime_index("SURGE")][regime_index("STORM")]
               > hmm_model.transmat_[regime_index("STORM")][regime_index("SURGE")]

\* Calm and Surge both among the last three of at least three regimes
RapidTransition ==
    /\ Len(regime_history) >= 3
    /\ \E i, j \in (Len(regime_history) - 2)..Len(regime_history) :
          regime_history[i] = "CALM" /\ regime_history[j] = "SURGE"

\* the labels the analysis reports; without any detection it reports none
ReportedHistory ==
    IF "regime_history" \in DOMAIN ret.report THEN ret.report.regime_history
    ELSE <<>>

\* C26: the analysis warns of a rapid transition exactly when Calm and
\* Surge are both among the last 3 detected regimes, of at least 3, and
\* its regime_history is the last min(24, n) regimes in detection order.
C26_RapidTransitionAndHistory ==
    ret.op = "get_regime_analysis" =>
        /\ ("RAPID TRANSITION" \in Range(ret.report.warnings))
               <=> RapidTransition
        /\ Len(ReportedHistory)
               = (IF Len(regime_history) < 24 THEN Len(regime_history)
                  ELSE 24)
        /\ \A i \in 1..Len(ReportedHistory) :
              ReportedHistory[i]
                  = regime_history[Len(regime_history)
                                   - Len(ReportedHistory) + i]

\* more than 24 detections, the last three with Calm and Surge
C26_Witness ==
    /\ ret.op = "get_regime_analysis"
    /\ Len(regime_history) = 25
    /\ regime_history[23] = "SURGE"
    /\ regime_history[25] = "CALM"
    /\ "RAPID TRANSITION" \in Range(ret.report.warnings)
    /\ Len(ret.report.regime_history) = 24

\* a regime and a probability vector of one detection
OneDetection(regime, probs) ==
    [regime |-> regime, probs |-> probs] \in DetectionChoices

\* C28: regime_history and regime_probabilities have the same length and
\* their entries of the same index come from the same detection, so the
\* regime and the distribution of the analysis are of one detection.
C28_HistoryMatchesProbabilities ==
    /\ Len(regime_history) = Len(regime_probabilities)
    /\ \A i \in 1..Len(regime_history) :
          i <= Len(regime_probabilities)
              => OneDetection(regime_history[i], regime_probabilities[i])
    /\ (ret.op = "get_regime_analysis" /\ regime_history # <<>>)
          => OneDetection(ret.report.current_regime,
                          ret.report.regime_distribution)

====
